---- MODULE Spec2Model ----
(***************************************************************************)
(* A model of fuzzion2 (stjude/fuzzion2, src/cpp).                         *)
(*                                                                         *)
(* Part I   the worker pool of fuzzion2.cpp: threadWork, getBatch,         *)
(*          processBatch, processOrientation and the tail of main.         *)
(* Part II  the pair matcher of match.cpp: Match::insertSize, getBestPair, *)
(*          overlapLeft, overlapRight, validOverlaps, lengthOfLCS.         *)
(***************************************************************************)
EXTENDS Integers, Sequences, FiniteSets, TLC

(***************************************************************************)
(* Bounds of the model.                                                    *)
(***************************************************************************)
\* largest number of worker threads explored (the program allows 1..64)
MaxThreads == 2
\* number of read pairs in a full batch (THREAD_BATCH_SIZE, scaled down)
BatchSize == 2
\* largest number of read pairs the pair source holds
MaxPairs == 3

(***************************************************************************)
(* Part I.  State of the worker pool.                                      *)
(***************************************************************************)
VARIABLES
    numThreads,    \* fuzzion2.cpp:39   number of worker threads
    srcPairs,      \* number of read pairs the pair source holds (finite input)
    srcPos,        \* number of read pairs the pair source has delivered
    endOfInput,    \* fuzzion2.cpp:56
    inputMutex,    \* fuzzion2.cpp:58   0 = free, else the worker that holds it
    outputMutex,   \* fuzzion2.cpp:59   0 = free, else the worker that holds it
    numReadPairs,  \* fuzzion2.cpp:61
    pc,            \* position of each worker inside threadWork
    count,         \* threadWork's count, per worker
    batch,         \* threadWork's name1/seq1/name2/seq2 vectors, per worker:
                   \* slot -> index of the read pair stored there (0 = "")
    message,       \* *message of each worker ("" = no error)
    idx,           \* processBatch's i (0-based), per worker
    orient,        \* 1 = (read1, read2), 2 = (read2, read1), per worker
    cout,          \* lines written to standard output, in order
    cerr,          \* message written to standard error ("" = none)
    exitCode,      \* -1 while running, else main's return value
    mainpc,        \* position of main: "join", "check", "exit"
    joinIdx,       \* main's i in the join loop (1-based)
    placed,        \* history: pair -> the <<worker, slot>> stores made of it
    matched        \* history: pair -> the <<worker, orientation>> calls of
                   \* processOrientation made on it, in order

(***************************************************************************)
(* Part II.  State of the pair matcher.                                    *)
(***************************************************************************)
VARIABLES
    mpc,           \* "off", "ready" (arguments chosen), "done" (getBestPair
                   \* returned), "returned" (getMatches returned)
    cmap1,         \* getBestPair's cmap1: pattern index -> CandidateVector
    cmap2,         \* getBestPair's cmap2
    maxInsert,     \* getBestPair's maxInsert
    maxTrim,       \* getBestPair's maxTrim
    bestOverall,   \* getBestPair's bestOverall
    matchVector,   \* getBestPair's and getMatches' matchVector
    findSingle,    \* getMatches' findSingle
    opc,           \* "off", "ready" (arguments chosen), "done" (returned)
    pattern,       \* validOverlaps: (*patternVector)[match.c1.index]
    sequence1,     \* validOverlaps' sequence1
    sequence2,     \* validOverlaps' sequence2
    match,         \* validOverlaps' match
    minBases,      \* validOverlaps' minBases
    minOverlap,    \* validOverlaps' minOverlap
    valid,         \* validOverlaps' result
    foundHit       \* processOrientation's foundHit

\* One call of a function that keeps no state between calls
VARIABLES
    fpc,           \* "off", "ready" (arguments chosen), "done" (returned)
    args,          \* the arguments: a record whose fn names the function
    result         \* what the call returned or threw

\* The InputReader of pairread.h over a series of pair readers
VARIABLES
    ipc,           \* "off", "constructed", "open", "eof" (getNextPair returned
                   \* false), "failed" (a call threw), "closed"
    readerVector,  \* InputReader::readerVector: per child, the pairs its
                   \* file holds, the pairs it has delivered, whether it is open
    currentReader, \* InputReader::current
    log            \* history: the calls made on the children and what
                   \* getNextPair returned, in order

mvars == <<mpc, cmap1, cmap2, maxInsert, maxTrim, bestOverall, matchVector,
           findSingle>>

ovars == <<opc, pattern, sequence1, sequence2, match, minBases, minOverlap,
           valid, foundHit>>

wvars == <<numThreads, srcPairs, srcPos, endOfInput, inputMutex, outputMutex,
           numReadPairs, pc, count, batch, message, idx, orient, cout, cerr,
           exitCode, mainpc, joinIdx, placed, matched>>

fvars == <<fpc, args, result>>

ivars == <<ipc, readerVector, currentReader, log>>

vars == <<wvars, mvars, ovars, fvars, ivars>>

Workers == 1..numThreads

\* the messages a runtime_error can carry in a worker
ReadError == "mismatched read names"
MatchError == "unsupported k-mer length"

(***************************************************************************)
(* main(), fuzzion2.cpp:536-544: after the threads have been started.      *)
(***************************************************************************)
WorkerInit ==
    /\ numThreads \in 1..MaxThreads
    /\ srcPairs \in 0..MaxPairs
    /\ srcPos = 0
    /\ endOfInput = FALSE
    /\ inputMutex = 0
    /\ outputMutex = 0
    /\ numReadPairs = 0
    /\ pc = [w \in Workers |-> "getBatch"]
    /\ count = [w \in Workers |-> 0]
    /\ batch = [w \in Workers |-> [s \in 1..BatchSize |-> 0]]
    /\ message = [w \in Workers |-> ""]
    /\ idx = [w \in Workers |-> 0]
    /\ orient = [w \in Workers |-> 1]
    /\ cout = <<>>
    /\ cerr = ""
    /\ exitCode = -1
    /\ mainpc = "join"
    /\ joinIdx = 1
    /\ placed = [p \in 1..srcPairs |-> {}]
    /\ matched = [p \in 1..srcPairs |-> <<>>]

\* variables no worker step of getBatch touches
OutSide == <<numThreads, srcPairs, outputMutex, idx, orient, cout, cerr,
             exitCode, mainpc, joinIdx, matched, mvars, ovars, fvars, ivars>>

\* threadWork's loop test, fuzzion2.cpp:487, as the next position of worker w
LoopTest(msg, cnt) ==
    IF msg = "" /\ cnt = BatchSize THEN "getBatch" ELSE "done"

\* fuzzion2.cpp:484-487: what threadWork does with getBatch's result
AfterGetBatch(msg, cnt) ==
    IF msg = "" /\ cnt > 0 THEN "processOrientation" ELSE LoopTest(msg, cnt)

(***************************************************************************)
(* getBatch(), fuzzion2.cpp:398-433.                                       *)
(***************************************************************************)
\* fuzzion2.cpp:401-403: count = 0 and the first test of endOfInput, made
\* without the mutex.  Another worker may be writing the flag at that
\* moment, so the value read is the flag or its old value FALSE.
GetBatchEnter(w) ==
    /\ pc[w] = "getBatch"
    /\ count' = [count EXCEPT ![w] = 0]
    /\ \E seen \in (IF numThreads > 1 THEN {endOfInput, FALSE} ELSE {endOfInput}) :
          pc' = [pc EXCEPT ![w] =
                    IF seen THEN AfterGetBatch(message[w], 0) ELSE "lockInput"]
    /\ UNCHANGED <<srcPos, endOfInput, inputMutex, numReadPairs, batch,
                   message, placed>>
    /\ UNCHANGED OutSide

\* GetBatchLock without the lock: the worker goes on without the mutex
GetBatchLockSkipped(w) ==
    /\ pc[w] = "lockInput"
    /\ pc' = [pc EXCEPT ![w] = "testInput"]
    /\ UNCHANGED <<srcPos, endOfInput, inputMutex, numReadPairs, count, batch,
                   message, placed>>
    /\ UNCHANGED OutSide

\* fuzzion2.cpp:405-406
GetBatchLock(w) ==
    /\ pc[w] = "lockInput"
    /\ IF numThreads > 1
          THEN inputMutex = 0 /\ inputMutex' = w
          ELSE UNCHANGED inputMutex
    /\ pc' = [pc EXCEPT ![w] = "testInput"]
    /\ UNCHANGED <<srcPos, endOfInput, numReadPairs, count, batch, message,
                   placed>>
    /\ UNCHANGED OutSide

\* GetBatchTest without the test: the worker goes on to pull
GetBatchTestSkipped(w) ==
    /\ pc[w] = "testInput"
    /\ pc' = [pc EXCEPT ![w] = "pull"]
    /\ UNCHANGED <<srcPos, endOfInput, inputMutex, numReadPairs, count, batch,
                   message, placed>>
    /\ UNCHANGED OutSide

\* fuzzion2.cpp:408: the second test of endOfInput
GetBatchTest(w) ==
    /\ pc[w] = "testInput"
    /\ pc' = [pc EXCEPT ![w] = IF endOfInput THEN "unlockInput" ELSE "pull"]
    /\ UNCHANGED <<srcPos, endOfInput, inputMutex, numReadPairs, count, batch,
                   message, placed>>
    /\ UNCHANGED OutSide

\* fuzzion2.cpp:412-415: one call of pairReader->getNextPair that returns
\* true: the pair is stored in slot count and count is incremented
PullPair(w) ==
    /\ pc[w] = "pull"
    /\ count[w] < BatchSize
    /\ srcPos < srcPairs
    /\ srcPos' = srcPos + 1
    /\ batch' = [batch EXCEPT ![w][count[w] + 1] = srcPos + 1]
    /\ placed' = [placed EXCEPT ![srcPos + 1] = @ \cup {<<w, count[w] + 1>>}]
    /\ count' = [count EXCEPT ![w] = @ + 1]
    /\ UNCHANGED <<endOfInput, inputMutex, numReadPairs, pc, message>>
    /\ UNCHANGED OutSide

\* PullEnd that counts full batches only
PullEndFullOnly(w) ==
    /\ pc[w] = "pull"
    /\ count[w] = BatchSize \/ srcPos = srcPairs
    /\ numReadPairs' = numReadPairs +
                         (IF count[w] = BatchSize THEN count[w] ELSE 0)
    /\ pc' = [pc EXCEPT ![w] = "line424"]
    /\ UNCHANGED <<srcPos, endOfInput, inputMutex, count, batch, message,
                   placed>>
    /\ UNCHANGED OutSide

\* fuzzion2.cpp:412-417: the loop ends, because the batch is full or because
\* getNextPair returned false, and count is added to numReadPairs
PullEnd(w) ==
    /\ pc[w] = "pull"
    /\ count[w] = BatchSize \/ srcPos = srcPairs
    /\ numReadPairs' = numReadPairs + count[w]
    /\ pc' = [pc EXCEPT ![w] = "line424"]
    /\ UNCHANGED <<srcPos, endOfInput, inputMutex, count, batch, message,
                   placed>>
    /\ UNCHANGED OutSide

\* fuzzion2.cpp:412-422: a call of getNextPair throws a runtime_error; the
\* catch stores its message and line 417 is skipped
PullThrow(w) ==
    /\ pc[w] = "pull"
    /\ count[w] < BatchSize
    /\ message' = [message EXCEPT ![w] = ReadError]
    /\ pc' = [pc EXCEPT ![w] = "line424"]
    /\ UNCHANGED <<srcPos, endOfInput, inputMutex, numReadPairs, count, batch,
                   placed>>
    /\ UNCHANGED OutSide

\* fuzzion2.cpp:424-425
GetBatchSetEnd(w) ==
    /\ pc[w] = "line424"
    /\ endOfInput' = (endOfInput \/ message[w] # "" \/ count[w] < BatchSize)
    /\ pc' = [pc EXCEPT ![w] = "unlockInput"]
    /\ UNCHANGED <<srcPos, inputMutex, numReadPairs, count, batch, message,
                   placed>>
    /\ UNCHANGED OutSide

\* GetBatchUnlock that returns without releasing the input mutex
GetBatchUnlockMissing(w) ==
    /\ pc[w] = "unlockInput"
    /\ pc' = [pc EXCEPT ![w] = AfterGetBatch(message[w], count[w])]
    /\ idx' = [idx EXCEPT ![w] = 0]
    /\ orient' = [orient EXCEPT ![w] = 1]
    /\ UNCHANGED <<srcPos, endOfInput, inputMutex, numReadPairs, count, batch,
                   message, placed>>
    /\ UNCHANGED <<numThreads, srcPairs, outputMutex, cout, cerr, exitCode,
                   mainpc, joinIdx, matched, mvars, ovars, fvars, ivars>>

\* fuzzion2.cpp:428-432 and threadWork's use of the result, 484-487
GetBatchUnlock(w) ==
    /\ pc[w] = "unlockInput"
    /\ inputMutex' = IF numThreads > 1 THEN 0 ELSE inputMutex
    /\ pc' = [pc EXCEPT ![w] = AfterGetBatch(message[w], count[w])]
    /\ idx' = [idx EXCEPT ![w] = 0]
    /\ orient' = [orient EXCEPT ![w] = 1]
    /\ UNCHANGED <<srcPos, endOfInput, numReadPairs, count, batch, message,
                   placed>>
    /\ UNCHANGED <<numThreads, srcPairs, outputMutex, cout, cerr, exitCode,
                   mainpc, joinIdx, matched, mvars, ovars, fvars, ivars>>

(***************************************************************************)
(* processBatch(), fuzzion2.cpp:439-464, and processOrientation(),         *)
(* fuzzion2.cpp:330-391.                                                   *)
(***************************************************************************)
\* variables no worker step of processBatch touches
InSide == <<numThreads, srcPairs, srcPos, numReadPairs, count, batch, cerr,
            exitCode, mainpc, joinIdx, placed, mvars, ovars, fvars, ivars>>

\* the read pair processBatch is at: name1[i], seq1[i], name2[i], seq2[i]
CurrentPair(w) == batch[w][idx[w] + 1]

\* a line of standard output written by processOrientation
HitLine(w, l) ==
    [worker |-> w, batch |-> batch[w][1], pair |-> CurrentPair(w),
     orient |-> orient[w], line |-> l]

\* Advance that leaves out the swapped orientation
AdvanceSkipSwap(w) ==
    /\ orient' = [orient EXCEPT ![w] = 1]
    /\ idx' = [idx EXCEPT ![w] = @ + 1]
    /\ pc' = [pc EXCEPT ![w] =
                IF idx[w] + 1 < count[w]
                   THEN "processOrientation"
                   ELSE LoopTest(message[w], count[w])]

\* fuzzion2.cpp:446-450: the position after processOrientation has returned:
\* the swapped orientation of the same pair, the next pair, or the end of
\* the batch and threadWork's loop test
Advance(w) ==
    IF orient[w] = 1
       THEN /\ orient' = [orient EXCEPT ![w] = 2]
            /\ pc' = [pc EXCEPT ![w] = "processOrientation"]
            /\ UNCHANGED idx
       ELSE /\ orient' = [orient EXCEPT ![w] = 1]
            /\ idx' = [idx EXCEPT ![w] = @ + 1]
            /\ pc' = [pc EXCEPT ![w] =
                        IF idx[w] + 1 < count[w]
                           THEN "processOrientation"
                           ELSE LoopTest(message[w], count[w])]

\* fuzzion2.cpp:335-357: bestMatch and the overlap tests find no hit
OrientationNoHit(w) ==
    /\ pc[w] = "processOrientation"
    /\ matched' = [matched EXCEPT ![CurrentPair(w)] =
                      Append(@, <<w, orient[w]>>)]
    /\ Advance(w)
    /\ UNCHANGED <<endOfInput, inputMutex, outputMutex, message, cout>>
    /\ UNCHANGED InSide

\* fuzzion2.cpp:335-371: bestMatch and the overlap tests find a hit
OrientationHit(w) ==
    /\ pc[w] = "processOrientation"
    /\ matched' = [matched EXCEPT ![CurrentPair(w)] =
                      Append(@, <<w, orient[w]>>)]
    /\ pc' = [pc EXCEPT ![w] = "lockOutput"]
    /\ UNCHANGED <<endOfInput, inputMutex, outputMutex, message, idx, orient,
                   cout>>
    /\ UNCHANGED InSide

\* fuzzion2.cpp:335 with 452-454: the matching raises a runtime_error, which
\* processBatch catches; its message is stored
OrientationThrow(w) ==
    /\ pc[w] = "processOrientation"
    /\ matched' = [matched EXCEPT ![CurrentPair(w)] =
                      Append(@, <<w, orient[w]>>)]
    /\ message' = [message EXCEPT ![w] = MatchError]
    /\ pc' = [pc EXCEPT ![w] = "catchLock"]
    /\ UNCHANGED <<endOfInput, inputMutex, outputMutex, idx, orient, cout>>
    /\ UNCHANGED InSide

\* OutputLock without the lock: the worker writes without the mutex
OutputLockSkipped(w) ==
    /\ pc[w] = "lockOutput"
    /\ pc' = [pc EXCEPT ![w] = "write1"]
    /\ UNCHANGED <<endOfInput, inputMutex, outputMutex, message, idx, orient,
                   cout, matched>>
    /\ UNCHANGED InSide

\* fuzzion2.cpp:374-375
OutputLock(w) ==
    /\ pc[w] = "lockOutput"
    /\ IF numThreads > 1
          THEN outputMutex = 0 /\ outputMutex' = w
          ELSE UNCHANGED outputMutex
    /\ pc' = [pc EXCEPT ![w] = "write1"]
    /\ UNCHANGED <<endOfInput, inputMutex, message, idx, orient, cout,
                   matched>>
    /\ UNCHANGED InSide

\* fuzzion2.cpp:377-387: the pattern line, the first read line and the
\* second read line, one step each
WriteLine(w, l) ==
    /\ pc[w] = <<"write1", "write2", "write3">>[l]
    /\ cout' = Append(cout, HitLine(w, l))
    /\ pc' = [pc EXCEPT ![w] = <<"write2", "write3", "unlockOutput">>[l]]
    /\ UNCHANGED <<endOfInput, inputMutex, outputMutex, message, idx, orient,
                   matched>>
    /\ UNCHANGED InSide

\* OutputUnlock that keeps the mutex until the batch has been processed
OutputUnlockAtBatchEnd(w) ==
    /\ pc[w] = "unlockOutput"
    /\ outputMutex' = IF numThreads > 1 /\ orient[w] = 2 /\ idx[w] + 1 = count[w]
                         THEN 0 ELSE outputMutex
    /\ Advance(w)
    /\ UNCHANGED <<endOfInput, inputMutex, message, cout, matched>>
    /\ UNCHANGED InSide

\* fuzzion2.cpp:389-390, then back in processBatch's loop
OutputUnlock(w) ==
    /\ pc[w] = "unlockOutput"
    /\ outputMutex' = IF numThreads > 1 THEN 0 ELSE outputMutex
    /\ Advance(w)
    /\ UNCHANGED <<endOfInput, inputMutex, message, cout, matched>>
    /\ UNCHANGED InSide

\* fuzzion2.cpp:456-457
CatchLock(w) ==
    /\ pc[w] = "catchLock"
    /\ IF numThreads > 1
          THEN inputMutex = 0 /\ inputMutex' = w
          ELSE UNCHANGED inputMutex
    /\ pc' = [pc EXCEPT ![w] = "catchSet"]
    /\ UNCHANGED <<endOfInput, outputMutex, message, idx, orient, cout,
                   matched>>
    /\ UNCHANGED InSide

\* fuzzion2.cpp:459
CatchSetEnd(w) ==
    /\ pc[w] = "catchSet"
    /\ endOfInput' = TRUE
    /\ pc' = [pc EXCEPT ![w] = "catchUnlock"]
    /\ UNCHANGED <<inputMutex, outputMutex, message, idx, orient, cout,
                   matched>>
    /\ UNCHANGED InSide

\* CatchUnlock that returns without releasing the input mutex
CatchUnlockMissing(w) ==
    /\ pc[w] = "catchUnlock"
    /\ pc' = [pc EXCEPT ![w] = LoopTest(message[w], count[w])]
    /\ UNCHANGED <<endOfInput, inputMutex, outputMutex, message, idx, orient,
                   cout, matched>>
    /\ UNCHANGED InSide

\* fuzzion2.cpp:461-462, then threadWork's loop test, which ends the thread
CatchUnlock(w) ==
    /\ pc[w] = "catchUnlock"
    /\ inputMutex' = IF numThreads > 1 THEN 0 ELSE inputMutex
    /\ pc' = [pc EXCEPT ![w] = LoopTest(message[w], count[w])]
    /\ UNCHANGED <<endOfInput, outputMutex, message, idx, orient, cout,
                   matched>>
    /\ UNCHANGED InSide

(***************************************************************************)
(* main(), fuzzion2.cpp:546-575.                                           *)
(***************************************************************************)
\* the message of the highest-indexed worker that has one, from worker i on
LastMessage(i) ==
    LET S == {j \in i..numThreads : message[j] # ""}
    IN  IF S = {} THEN "" ELSE message[CHOOSE j \in S : \A k \in S : k <= j]

RECURSIVE FirstMessage(_)
\* fuzzion2.cpp:554-556: the message main throws, "" when there is none
FirstMessage(i) ==
    IF i > numThreads THEN ""
    ELSE IF message[i] # "" THEN message[i]
    ELSE FirstMessage(i + 1)

\* fuzzion2.cpp:547-551: thread[i]->join() returns once worker i has
\* returned from threadWork
Join ==
    /\ mainpc = "join"
    /\ pc[joinIdx] = "done"
    /\ joinIdx' = joinIdx + 1
    /\ mainpc' = IF joinIdx = numThreads THEN "check" ELSE "join"
    /\ UNCHANGED <<numThreads, srcPairs, srcPos, endOfInput, inputMutex,
                   outputMutex, numReadPairs, pc, count, batch, message, idx,
                   orient, cout, cerr, exitCode, placed, matched, mvars,
                   ovars, fvars, ivars>>

\* fuzzion2.cpp:554-574: the first non-empty message is thrown, caught,
\* written to standard error and main returns 1; with no message the
\* read-pair total is written and main returns 0
Finish ==
    /\ mainpc = "check"
    /\ IF FirstMessage(1) # ""
          THEN /\ cerr' = FirstMessage(1)
               /\ exitCode' = 1
               /\ UNCHANGED cout
          ELSE /\ cout' = Append(cout, [line |-> 0, total |-> numReadPairs])
               /\ exitCode' = 0
               /\ UNCHANGED cerr
    /\ mainpc' = "exit"
    /\ UNCHANGED <<numThreads, srcPairs, srcPos, endOfInput, inputMutex,
                   outputMutex, numReadPairs, pc, count, batch, message, idx,
                   orient, joinIdx, placed, matched, mvars, ovars, fvars, ivars>>

\* one step of worker w
WorkerStep(w) ==
    \/ GetBatchEnter(w)
    \/ GetBatchLock(w)
    \/ GetBatchTest(w)
    \/ PullPair(w)
    \/ PullEnd(w)
    \/ PullThrow(w)
    \/ GetBatchSetEnd(w)
    \/ GetBatchUnlock(w)
    \/ OrientationNoHit(w)
    \/ OrientationHit(w)
    \/ OrientationThrow(w)
    \/ OutputLock(w)
    \/ \E l \in 1..3 : WriteLine(w, l)
    \/ OutputUnlock(w)
    \/ CatchLock(w)
    \/ CatchSetEnd(w)
    \/ CatchUnlock(w)

\* the pair matcher is not part of this specification
MatcherOff ==
    /\ mpc = "off"
    /\ cmap1 = <<>>
    /\ cmap2 = <<>>
    /\ maxInsert = 0
    /\ maxTrim = 0
    /\ bestOverall = FALSE
    /\ matchVector = <<>>
    /\ findSingle = FALSE

\* the overlap validation is not part of this specification
OverlapOff ==
    /\ opc = "off"
    /\ pattern = <<>>
    /\ sequence1 = <<>>
    /\ sequence2 = <<>>
    /\ match = <<>>
    /\ minBases = 0
    /\ minOverlap = 0
    /\ valid = FALSE
    /\ foundHit = FALSE

\* no function call is part of this specification
FunctionsOff ==
    /\ fpc = "off"
    /\ args = <<>>
    /\ result = <<>>

\* no InputReader is part of this specification
InputReaderOff ==
    /\ ipc = "off"
    /\ readerVector = <<>>
    /\ currentReader = -1
    /\ log = <<>>

Init ==
    WorkerInit /\ MatcherOff /\ OverlapOff /\ FunctionsOff /\ InputReaderOff

Next ==
    \/ \E w \in Workers : WorkerStep(w)
    \/ Join
    \/ Finish

Spec == Init /\ [][Next]_vars

\* the scheduler runs every worker that can take a step, and main
FairSpec ==
    /\ Spec
    /\ \A w \in 1..MaxThreads : WF_vars(w \in Workers /\ WorkerStep(w))
    /\ WF_vars(Join \/ Finish)

(***************************************************************************)
(* Properties of the worker pool.                                          *)
(***************************************************************************)
\* positions of a worker between outputMutex.lock() and outputMutex.unlock()
WritingPcs == {"write1", "write2", "write3", "unlockOutput"}

\* the indexes of the hit lines of standard output
HitLines == {k \in 1..Len(cout) : cout[k].line # 0}

SameHit(a, b) ==
    a.worker = b.worker /\ a.pair = b.pair /\ a.orient = b.orient

\* C1: the three lines of every emitted hit are consecutive in the output,
\* no other line between them, and at most one worker is writing to
\* standard output at any instant, for every number of workers.
C1_HitLinesConsecutive ==
    /\ Cardinality({w \in Workers : pc[w] \in WritingPcs}) <= 1
    /\ \A k \in 1..Len(cout) :
          /\ cout[k].line \in {2, 3} =>
                /\ k > 1
                /\ cout[k - 1].line = cout[k].line - 1
                /\ SameHit(cout[k - 1], cout[k])
          /\ (cout[k].line \in {1, 2} /\ k < Len(cout)) =>
                /\ cout[k + 1].line = cout[k].line + 1
                /\ SameHit(cout[k + 1], cout[k])
          /\ (cout[k].line = 0 /\ k > 1) => cout[k - 1].line = 3
    /\ mainpc = "exit" => (cout = <<>> \/ cout[Len(cout)].line \in {0, 3})

\* C1 witness: a worker is in the middle of a hit, after a complete hit of
\* another worker, while that other worker waits for the output mutex
C1_Witness ==
    \E w1, w2 \in Workers :
        /\ w1 # w2
        /\ pc[w1] = "write3"
        /\ pc[w2] = "lockOutput"
        /\ Len(cout) = 5
        /\ cout[1].worker = w2
        /\ cout[4].worker = w1

\* C2: with more than one worker, at most one worker is inside the pull loop
\* of getBatch, and a worker in it holds the input mutex.
C2_PullUnderInputMutex ==
    numThreads > 1 =>
        /\ \A w \in Workers : pc[w] = "pull" => inputMutex = w
        /\ Cardinality({w \in Workers : pc[w] = "pull"}) <= 1

\* C2 witness: a worker is in the pull loop with a pair already pulled while
\* another worker waits for the input mutex
C2_Witness ==
    \E w1, w2 \in Workers :
        /\ w1 # w2
        /\ pc[w1] = "pull"
        /\ count[w1] = 1
        /\ pc[w2] = "lockInput"

\* positions of a worker whose message is set
AfterErrorPcs ==
    {"line424", "unlockInput", "catchLock", "catchSet", "catchUnlock", "done"}

\* C3: a worker that caught a runtime error has stored its message, goes on
\* to set endOfInput and return without pulling or processing anything
\* more; after the join main reports the message of the lowest-indexed
\* worker that has one, writes no read-pair total and exits with code 1.
C3_ErrorReported ==
    /\ \A w \in Workers :
          message[w] # "" =>
              /\ pc[w] \in AfterErrorPcs
              /\ pc[w] = "done" => endOfInput
    /\ (mainpc = "exit" /\ \E w \in Workers : message[w] # "") =>
          /\ \E w \in Workers :
                /\ message[w] # ""
                /\ \A v \in Workers : v < w => message[v] = ""
                /\ cerr = message[w]
          /\ exitCode = 1
          /\ \A k \in 1..Len(cout) : cout[k].line # 0

\* C3 witness: main has exited after two workers caught different errors
C3_Witness ==
    /\ mainpc = "exit"
    /\ numThreads = 2
    /\ message[1] = MatchError
    /\ message[2] = ReadError

AllReturned == \A w \in Workers : pc[w] = "done"

\* C4: under fair scheduling every worker returns from threadWork and main's
\* join completes, on end-of-input and on an error alike; a worker that
\* finds endOfInput true has no pairs and returns at its next turn.
C4_Terminates ==
    /\ <>(AllReturned /\ mainpc = "exit")
    /\ [][\A w \in Workers :
            /\ (pc[w] = "testInput" /\ endOfInput /\ pc'[w] # pc[w]) =>
                   (pc'[w] = "unlockInput" /\ count'[w] = 0)
            /\ (pc[w] = "unlockInput" /\ count[w] = 0 /\ pc'[w] # pc[w]) =>
                   pc'[w] = "done"]_vars

\* C4 witness: main has exited after an error, and a worker returned with no
\* pairs from a source that still had some
C4_Witness ==
    /\ mainpc = "exit"
    /\ exitCode = 1
    /\ AllReturned
    /\ srcPos < srcPairs
    /\ \E w \in Workers : message[w] = "" /\ count[w] = 0

\* the number of stores of read pairs into batches
RECURSIVE PlacedUpTo(_)
PlacedUpTo(p) ==
    IF p = 0 THEN 0 ELSE Cardinality(placed[p]) + PlacedUpTo(p - 1)

\* C5: on a run that ends without error every read pair of the source is in
\* exactly one batch, is processed once in each orientation by the worker
\* that holds it, and is counted once: the total written equals the sum of
\* the batch sizes and the number of pairs in the input.
C5_EveryPairOnce ==
    (mainpc = "exit" /\ exitCode = 0) =>
        /\ srcPos = srcPairs
        /\ \A p \in 1..srcPairs :
              \E w \in Workers, s \in 1..BatchSize :
                  /\ placed[p] = {<<w, s>>}
                  /\ matched[p] = <<(<<w, 1>>), (<<w, 2>>)>>
        /\ numReadPairs = srcPairs
        /\ numReadPairs = PlacedUpTo(srcPairs)
        /\ cout # <<>>
        /\ cout[Len(cout)] = [line |-> 0, total |-> srcPairs]

\* C5 witness: a run without error in which both workers held pairs
C5_Witness ==
    /\ mainpc = "exit"
    /\ exitCode = 0
    /\ srcPairs = MaxPairs
    /\ \E p, q \in 1..srcPairs :
          \E a \in placed[p], b \in placed[q] : a[1] # b[1]

Before(a, b) ==
    \/ a.pair < b.pair
    \/ a.pair = b.pair /\ a.orient < b.orient
    \/ a.pair = b.pair /\ a.orient = b.orient /\ a.line < b.line

\* positions of a worker that holds no read pair it has yet to process
BetweenBatchesPcs == {"getBatch", "lockInput", "testInput", "done"}

MaxCands == 3

\* the pattern indexes and the candidate offsets explored
PatternIds == {0, 1}
CandOffsets == {0, 1, 2}
\* the lengths of the first read and of the reverse-complemented second read
SeqLens == <<2, 3>>
\* the values of maxInsert and maxTrim explored
MaxInserts == {3, 4}
MaxTrims == {0, 1}

Max(a, b) == IF a >= b THEN a ELSE b
Min(a, b) == IF a <= b THEN a ELSE b

\* match.h:54
MatchingBases(m) == m.c1.matchingBases + m.c2.matchingBases

\* Match::insertSize(), match.cpp:68-78
InsertSize(m) ==
    IF m.c1.matchingBases = 0 THEN m.c2.length
    ELSE IF m.c2.matchingBases = 0 THEN m.c1.length
    ELSE IF m.c1.offset <= m.c2.offset
            THEN Max(m.c1.length, m.c2.offset - m.c1.offset + m.c2.length)
            ELSE Max(m.c2.length, m.c1.offset - m.c2.offset + m.c1.length)

\* the test of match.cpp:280 without the maxTrim part
RejectedInsertOnly(m, maxIns, maxTr) == InsertSize(m) > maxIns

\* match.cpp:280-281: the candidate pair is skipped
Rejected(m, maxIns, maxTr) ==
    \/ InsertSize(m) > maxIns
    \/ m.c1.offset - m.c2.offset > maxTr

\* the test of match.cpp:292 alone: no tie-break on the insert size
BetterByBasesOnly(m, b) == MatchingBases(m) > MatchingBases(b)

\* match.cpp:289-294: match m replaces the best match b
Better(m, b) ==
    \/ MatchingBases(m) > MatchingBases(b)
    \/ /\ MatchingBases(m) = MatchingBases(b)
       /\ InsertSize(m) < InsertSize(b)

\* match.cpp:278-296: the body of the inner loop; st = [best, mv] holds
\* getBestPair's best (0-based) and matchVector
TryPair(st, m, maxIns, maxTr) ==
    IF Rejected(m, maxIns, maxTr) THEN st
    ELSE IF st.best = Len(st.mv) THEN [st EXCEPT !.mv = Append(@, m)]
    ELSE IF Better(m, st.mv[st.best + 1])
            THEN [st EXCEPT !.mv[st.best + 1] = m]
            ELSE st

RECURSIVE ScanPairs(_, _, _, _, _, _, _)
\* match.cpp:275-297: the loops over cv1 and cv2, from (i, j) on (1-based)
ScanPairs(cv1, cv2, i, j, st, maxIns, maxTr) ==
    IF i > Len(cv1) THEN st
    ELSE IF j > Len(cv2) THEN ScanPairs(cv1, cv2, i + 1, 1, st, maxIns, maxTr)
    ELSE ScanPairs(cv1, cv2, i, j + 1,
                   TryPair(st, [c1 |-> cv1[i], c2 |-> cv2[j]], maxIns, maxTr),
                   maxIns, maxTr)

\* the keys a CandidateMap holds
Keys(cm) == {p \in DOMAIN cm : cm[p] # <<>>}

RECURSIVE Ascending(_)
\* the elements of a set of integers in ascending order: the order in which
\* a std::map is iterated
Ascending(S) ==
    IF S = {} THEN <<>>
    ELSE LET lo == CHOOSE x \in S : \A y \in S : x <= y
         IN  <<lo>> \o Ascending(S \ {lo})

RECURSIVE ScanPatterns(_, _, _, _, _, _, _, _)
\* match.cpp:266-301: the loop over cmap1, from the k-th key on
ScanPatterns(cm1, cm2, keys, k, st, maxIns, maxTr, bestAll) ==
    IF k > Len(keys) THEN st
    ELSE IF keys[k] \notin Keys(cm2)
            THEN ScanPatterns(cm1, cm2, keys, k + 1, st, maxIns, maxTr, bestAll)
    ELSE LET st2 == ScanPairs(cm1[keys[k]], cm2[keys[k]], 1, 1, st,
                              maxIns, maxTr)
             st3 == IF ~bestAll /\ st2.best < Len(st2.mv)
                       THEN [st2 EXCEPT !.best = @ + 1]
                       ELSE st2
         IN  ScanPatterns(cm1, cm2, keys, k + 1, st3, maxIns, maxTr, bestAll)

\* getBestPair(), match.cpp:261-302: the matchVector it leaves
GetBestPair(cm1, cm2, maxIns, maxTr, bestAll, mv) ==
    ScanPatterns(cm1, cm2, Ascending(Keys(cm1)), 1, [best |-> 0, mv |-> mv],
                 maxIns, maxTr, bestAll).mv

\* the candidates getCandidates leaves for one read (match.cpp:216-253): for
\* each pattern, in ascending order of offset, all of the read's length,
\* each with a number of matching bases that passed the test of line 238
CandidateMapOf(locs, bases, len) ==
    [p \in PatternIds |->
        LET offs == Ascending({l[2] : l \in {x \in locs : x[1] = p}})
        IN  [n \in 1..Len(offs) |->
                [index |-> p, offset |-> offs[n], length |-> len,
                 matchingBases |-> bases[<<p, offs[n]>>]]]]

\* the sets of at most MaxCands locations
LocationSets ==
    {L \in SUBSET (PatternIds \X CandOffsets) : Cardinality(L) <= MaxCands}

\* getMatches() at match.cpp:379-380, about to call getBestPair
MatcherInit ==
    /\ mpc = "ready"
    /\ \E L1 \in LocationSets, L2 \in LocationSets :
          \E b1 \in [L1 -> {SeqLens[1] - 1, SeqLens[1]}],
             b2 \in [L2 -> {SeqLens[2] - 1, SeqLens[2]}] :
              /\ cmap1 = CandidateMapOf(L1, b1, SeqLens[1])
              /\ cmap2 = CandidateMapOf(L2, b2, SeqLens[2])
    /\ maxInsert \in MaxInserts
    /\ maxTrim \in MaxTrims
    /\ bestOverall \in BOOLEAN
    /\ matchVector = <<>>
    /\ findSingle = FALSE

\* match.cpp:379-380: the call of getBestPair
CallGetBestPair ==
    /\ mpc = "ready"
    /\ Keys(cmap1) # {}
    /\ Keys(cmap2) # {}
    /\ matchVector' = GetBestPair(cmap1, cmap2, maxInsert, maxTrim,
                                  bestOverall, matchVector)
    /\ mpc' = "done"
    /\ UNCHANGED <<cmap1, cmap2, maxInsert, maxTrim, bestOverall, findSingle>>
    /\ UNCHANGED <<wvars, ovars, fvars, ivars>>

\* the unmatched mate of candidate c, match.cpp:321-322
Mate(c, mateLength) ==
    [index |-> c.index, offset |-> c.offset, length |-> mateLength,
     matchingBases |-> 0]

\* match.cpp:318-333: the body of getBestSingle's inner loop for candidate c
TrySingle(st, c, firstRead, mateLength) ==
    IF st.best = Len(st.mv) \/ c.matchingBases > MatchingBases(st.mv[st.best + 1])
       THEN LET mate == Mate(c, mateLength)
                m == [c1 |-> IF firstRead THEN c ELSE mate,
                      c2 |-> IF firstRead THEN mate ELSE c]
            IN  IF st.best = Len(st.mv)
                   THEN [st EXCEPT !.mv = Append(@, m)]
                   ELSE [st EXCEPT !.mv[st.best + 1] = m]
       ELSE st

RECURSIVE ScanSingles(_, _, _, _, _)
\* match.cpp:317-333: the loop over one CandidateVector, from i on
ScanSingles(cv, i, st, firstRead, mateLength) ==
    IF i > Len(cv) THEN st
    ELSE ScanSingles(cv, i + 1, TrySingle(st, cv[i], firstRead, mateLength),
                     firstRead, mateLength)

RECURSIVE ScanSinglePatterns(_, _, _, _, _, _, _)
\* match.cpp:313-337: the loop over cmap, from the k-th key on
ScanSinglePatterns(cm, keys, k, st, bestAll, firstRead, mateLength) ==
    IF k > Len(keys) THEN st
    ELSE LET st2 == ScanSingles(cm[keys[k]], 1, st, firstRead, mateLength)
             st3 == IF ~bestAll /\ st2.best < Len(st2.mv)
                       THEN [st2 EXCEPT !.best = @ + 1]
                       ELSE st2
         IN  ScanSinglePatterns(cm, keys, k + 1, st3, bestAll, firstRead,
                                mateLength)

\* getBestSingle(), match.cpp:309-339: the matchVector it leaves
GetBestSingle(cm, bestAll, firstRead, mateLength, mv) ==
    ScanSinglePatterns(cm, Ascending(Keys(cm)), 1,
                       [best |-> IF bestAll THEN 0 ELSE Len(mv), mv |-> mv],
                       bestAll, firstRead, mateLength).mv

\* MatchCompare, match.cpp:31-50: a is sorted before b
MatchCompare(a, b) ==
    IF MatchingBases(a) # MatchingBases(b)
       THEN MatchingBases(a) > MatchingBases(b)
    ELSE IF InsertSize(a) # InsertSize(b)
       THEN InsertSize(a) < InsertSize(b)
    ELSE a.c1.index < b.c1.index

\* std::sort with MatchCompare, match.cpp:392-393: the orders it can leave;
\* the order of matches that compare equal is not determined
SortedMatches(mv) ==
    LET n == Len(mv)
        perms == {f \in [1..n -> 1..n] : \A i, j \in 1..n : f[i] = f[j] => i = j}
    IN  {[i \in 1..n |-> mv[f[i]]] : f \in
            {g \in perms : \A i, j \in 1..n :
                i < j => ~MatchCompare(mv[g[j]], mv[g[i]])}}

\* match.cpp:365-374: the candidates of the second read kept when findSingle
\* is false are those on the patterns cmap1 holds
EligibleOnly(cm2, cm1) ==
    [p \in DOMAIN cm2 |-> IF p \in Keys(cm1) THEN cm2[p] ELSE <<>>]

\* getMatches without the test of matchVector.size() at match.cpp:382
SinglesWantedAlways(mv, single) == single

\* match.cpp:382: single-read matches are sought
SinglesWanted(mv, single) == Len(mv) = 0 /\ single

\* getMatches(), match.cpp:354-390, from the candidates of the two reads on:
\* the matchVector before the sort
GetMatches(cm1, cm2in, maxIns, maxTr, bestAll, single, len1, len2) ==
    IF Keys(cm1) = {} /\ ~single THEN <<>>
    ELSE LET cm2 == IF single THEN cm2in ELSE EligibleOnly(cm2in, cm1)
             mv1 == IF Keys(cm1) # {} /\ Keys(cm2) # {}
                       THEN GetBestPair(cm1, cm2, maxIns, maxTr, bestAll, <<>>)
                       ELSE <<>>
             mv2 == IF SinglesWanted(mv1, single) /\ Keys(cm1) # {}
                       THEN GetBestSingle(cm1, bestAll, TRUE, len2, mv1)
                       ELSE mv1
         IN  IF SinglesWanted(mv1, single) /\ Keys(cm2) # {}
                THEN GetBestSingle(cm2, bestAll, FALSE, len1, mv2)
                ELSE mv2

\* getMatches(), match.cpp:347-394, called with an empty matchVector
CallGetMatches ==
    /\ mpc = "ready"
    /\ \E single \in BOOLEAN :
          /\ findSingle' = single
          /\ matchVector' \in
                SortedMatches(GetMatches(cmap1, cmap2, maxInsert, maxTrim,
                                         bestOverall, single,
                                         SeqLens[1], SeqLens[2]))
    /\ mpc' = "returned"
    /\ UNCHANGED <<cmap1, cmap2, maxInsert, maxTrim, bestOverall>>
    /\ UNCHANGED <<wvars, ovars, fvars, ivars>>

MatcherNext == CallGetBestPair \/ CallGetMatches

\* the worker pool is not part of this specification
WorkerOff ==
    /\ numThreads = 0
    /\ srcPairs = 0
    /\ srcPos = 0
    /\ endOfInput = FALSE
    /\ inputMutex = 0
    /\ outputMutex = 0
    /\ numReadPairs = 0
    /\ pc = <<>>
    /\ count = <<>>
    /\ batch = <<>>
    /\ message = <<>>
    /\ idx = <<>>
    /\ orient = <<>>
    /\ cout = <<>>
    /\ cerr = ""
    /\ exitCode = -1
    /\ mainpc = "off"
    /\ joinIdx = 0
    /\ placed = <<>>
    /\ matched = <<>>

\* getBestPair alone, from every argument of MatcherInit
MatcherStart ==
    WorkerOff /\ MatcherInit /\ OverlapOff /\ FunctionsOff /\ InputReaderOff

MatcherSpec == MatcherStart /\ [][MatcherNext]_vars

(***************************************************************************)
(* Properties of the pair search.                                          *)
(***************************************************************************)
Range(f) == {f[x] : x \in DOMAIN f}

\* the candidate pairs of pattern p: the cross product getBestPair walks
PairsOn(p) ==
    {[c1 |-> a, c2 |-> b] : a \in Range(cmap1[p]), b \in Range(cmap2[p])}

\* the insert size of a read pair: from the leftmost base either read
\* covers to the rightmost base either read covers
Span(m) ==
    Max(m.c1.offset + m.c1.length, m.c2.offset + m.c2.length)
        - Min(m.c1.offset, m.c2.offset)

\* the candidate pairs of pattern p within the two bounds
AcceptedOn(p) ==
    {m \in PairsOn(p) :
        Span(m) <= maxInsert /\ m.c1.offset - m.c2.offset <= maxTrim}

AcceptedPairs == UNION {AcceptedOn(p) : p \in PatternIds}

\* the matches getBestPair returned
Returned == Range(matchVector)

\* C9: every read-pair match the pair search returns has its two candidates
\* on the same pattern, an insert size of at most maxInsert and
\* c1.offset - c2.offset of at most maxTrim; a candidate pair outside either
\* bound is not returned, whatever its number of matching bases.
C9_ReturnedWithinBounds ==
    mpc = "done" =>
        \A m \in Returned :
            /\ m.c1.index = m.c2.index
            /\ m \in PairsOn(m.c1.index)
            /\ Span(m) <= maxInsert
            /\ m.c1.offset - m.c2.offset <= maxTrim

\* C9 witness: a match is returned for a pattern on which one candidate pair
\* with more matching bases is over the insert bound and another is over the
\* trim bound
C9_Witness ==
    /\ mpc = "done"
    /\ \E m \in Returned :
          \E x, y \in PairsOn(m.c1.index) :
              /\ Span(x) > maxInsert
              /\ x.c1.offset - x.c2.offset <= maxTrim
              /\ MatchingBases(x) > MatchingBases(m)
              /\ Span(y) <= maxInsert
              /\ y.c1.offset - y.c2.offset > maxTrim
              /\ MatchingBases(y) > MatchingBases(m)

\* m is at least as good as n: more matching bases, or as many and an
\* insert size that is not larger
AtLeastAsGood(m, n) ==
    \/ MatchingBases(m) > MatchingBases(n)
    \/ MatchingBases(m) = MatchingBases(n) /\ Span(m) <= Span(n)

\* the best pairs of a set of candidate pairs
BestOf(S) == {m \in S : \A n \in S : AtLeastAsGood(m, n)}

\* C10: getBestPair keeps, among the accepted candidate pairs, one with the
\* greatest matchingBases and among those the smallest insertSize: one for
\* every pattern that has an accepted pair when bestOverall is false; one
\* over all patterns, of the smallest pattern index among the best, when
\* bestOverall is true; none when no pair is accepted.
C10_BestPairKept ==
    mpc = "done" =>
        IF bestOverall
           THEN IF AcceptedPairs = {} THEN matchVector = <<>>
                ELSE /\ Len(matchVector) = 1
                     /\ matchVector[1] \in BestOf(AcceptedPairs)
                     /\ \A n \in BestOf(AcceptedPairs) :
                           matchVector[1].c1.index <= n.c1.index
           ELSE /\ Len(matchVector) =
                      Cardinality({p \in PatternIds : AcceptedOn(p) # {}})
                /\ \A p \in PatternIds :
                      AcceptedOn(p) # {} =>
                          \E k \in 1..Len(matchVector) :
                              /\ matchVector[k] \in BestOf(AcceptedOn(p))
                              /\ \A j \in 1..Len(matchVector) :
                                    matchVector[j].c1.index = p => j = k

\* C10 witness: with bestOverall, the match returned is on pattern 0, ties
\* with a pair of pattern 1 in matching bases and insert size, and beats a
\* pair of its own pattern by the smaller insert size alone
C10_Witness ==
    /\ mpc = "done"
    /\ bestOverall
    /\ Len(matchVector) = 1
    /\ matchVector[1].c1.index = 0
    /\ \E m \in AcceptedOn(1) :
          /\ MatchingBases(m) = MatchingBases(matchVector[1])
          /\ Span(m) = Span(matchVector[1])
    /\ \E n \in AcceptedOn(0) :
          /\ MatchingBases(n) = MatchingBases(matchVector[1])
          /\ Span(n) > Span(matchVector[1])

\* an unmatched mate: a candidate without matching bases
Unmatched(c) == c.matchingBases = 0

HasUnmatched(m) == Unmatched(m.c1) \/ Unmatched(m.c2)

\* C11: getMatches returns a match with an unmatched mate only when
\* findSingle is true and no candidate pair was accepted; such a match has
\* exactly one unmatched mate, of the length of the other input read and
\* with the pattern index and offset of the matched candidate, which is a
\* candidate of its read; pair matches and single-read matches never appear
\* together; with findSingle false and no candidates on one side there is no
\* match.
C11_SingleOnlyWithoutPair ==
    mpc = "returned" =>
        /\ \A k \in 1..Len(matchVector) :
              LET m == matchVector[k]
              IN  HasUnmatched(m) =>
                    /\ findSingle
                    /\ AcceptedPairs = {}
                    /\ ~(Unmatched(m.c1) /\ Unmatched(m.c2))
                    /\ m.c1.index = m.c2.index
                    /\ m.c1.offset = m.c2.offset
                    /\ Unmatched(m.c2) =>
                          /\ m.c2.length = SeqLens[2]
                          /\ m.c1 \in Range(cmap1[m.c1.index])
                    /\ Unmatched(m.c1) =>
                          /\ m.c1.length = SeqLens[1]
                          /\ m.c2 \in Range(cmap2[m.c2.index])
        /\ (\E k \in 1..Len(matchVector) : HasUnmatched(matchVector[k]))
              => \A k \in 1..Len(matchVector) : HasUnmatched(matchVector[k])
        /\ (~findSingle /\ (Keys(cmap1) = {} \/ Keys(cmap2) = {}))
              => matchVector = <<>>

\* C11 witness: single-read matches of both reads are returned although the
\* two reads have candidates on the same pattern, all of them rejected as
\* pairs
C11_Witness ==
    /\ mpc = "returned"
    /\ findSingle
    /\ \E p \in PatternIds : PairsOn(p) # {}
    /\ \E k \in 1..Len(matchVector) : Unmatched(matchVector[k].c1)
    /\ \E k \in 1..Len(matchVector) : Unmatched(matchVector[k].c2)

(***************************************************************************)
(* Overlap validation: lengthOfLCS, overlapLeft, overlapRight and          *)
(* validOverlaps of match.cpp, and the test processOrientation makes with  *)
(* the functions of the same names in fuzzion2.cpp and pattern.cpp.        *)
(*                                                                         *)
(* A sequence of bases is a TLA+ sequence of one-character strings; the    *)
(* offsets are 0-based as in the source.  A Pattern is a record            *)
(* [sequence, leftBases, rightBases, hasBraces] (pattern.h:20-33).         *)
(***************************************************************************)
\* length of the pattern sequences explored
PatLen == 4

Bases == {"A", "C"}
\* the values of minBases (a percentage) and minOverlap explored
MinBasesValues == {50}
MinOverlaps == {1, 2}

\* computeMinMatches(), match.cpp:101-104 and fuzzion2.cpp:178-181: the
\* ceiling of (minBases / 100) * seqlen, for the values of MinBasesValues,
\* whose quotient by 100 is exact in a double
ComputeMinMatches(seqlen, minB) == (minB * seqlen + 99) \div 100

RECURSIVE FillRow(_, _, _, _, _, _, _)
\* match.cpp:127-131, pattern.cpp:202-206: the inner loop from j on; a row
\* is a function on 0..lenB, ai is a[i]
FillRow(ai, strB, offsetB, lenB, previous, current, j) ==
    IF j >= lenB THEN current
    ELSE FillRow(ai, strB, offsetB, lenB, previous,
                 [current EXCEPT ![j + 1] =
                     IF ai = strB[offsetB + j + 1]
                        THEN previous[j] + 1
                        ELSE Max(current[j], previous[j + 1])],
                 j + 1)

RECURSIVE LcsRows(_, _, _, _, _, _, _, _, _)
\* match.cpp:125-136, pattern.cpp:200-211: the outer loop from i on; the
\* result is <<previous, current>> as the two pointers stand after the loop
LcsRows(strA, offsetA, lenA, strB, offsetB, lenB, previous, current, i) ==
    IF i >= lenA THEN <<previous, current>>
    ELSE LcsRows(strA, offsetA, lenA, strB, offsetB, lenB,
                 FillRow(strA[offsetA + i + 1], strB, offsetB, lenB,
                         previous, current, 0),
                 previous, i + 1)

\* lengthOfLCS() of match.cpp:110-144, which returns previous[lenB]
LengthOfLCS(strA, offsetA, lenA, strB, offsetB, lenB) ==
    IF lenA <= 0 \/ lenB <= 0 THEN 0
    ELSE LcsRows(strA, offsetA, lenA, strB, offsetB, lenB,
                 [j \in 0..lenB |-> 0], [j \in 0..lenB |-> 0], 0)[1][lenB]

\* lengthOfLCS() of pattern.cpp:185-219, which returns current[lenB]
PatternLengthOfLCS(strA, offsetA, lenA, strB, offsetB, lenB) ==
    IF lenA <= 0 \/ lenB <= 0 THEN 0
    ELSE LcsRows(strA, offsetA, lenA, strB, offsetB, lenB,
                 [j \in 0..lenB |-> 0], [j \in 0..lenB |-> 0], 0)[2][lenB]

\* overlapLeft(), match.cpp:400-418
OverlapLeft(sequence, pat, offset, minB, minOv) ==
    LET maxPatternLen == Len(pat.sequence) - offset
        patternLen    == Min(Len(sequence), maxPatternLen)
        overlapBases  == Min(patternLen, pat.leftBases - offset)
    IN  IF overlapBases < minOv THEN FALSE
        ELSE IF overlapBases = patternLen THEN TRUE
        ELSE LengthOfLCS(sequence, 0, overlapBases,
                         pat.sequence, offset, overlapBases)
                 >= ComputeMinMatches(overlapBases, minB)

\* overlapRight(), match.cpp:424-443
OverlapRight(sequence, pat, offset, minB, minOv) ==
    LET maxPatternLen == Len(pat.sequence) - offset
        patternLen    == Min(Len(sequence), maxPatternLen)
        overlapBases  == patternLen + Min(0, pat.rightBases - maxPatternLen)
    IN  IF overlapBases < minOv THEN FALSE
        ELSE IF overlapBases = patternLen THEN TRUE
        ELSE LengthOfLCS(sequence, Len(sequence) - overlapBases, overlapBases,
                         pat.sequence, offset + patternLen - overlapBases,
                         overlapBases)
                 >= ComputeMinMatches(overlapBases, minB)

\* Match::leftmost1(), match.cpp:83-86
Leftmost1(m) ==
    /\ m.c1.matchingBases > 0
    /\ (m.c2.matchingBases = 0 \/ m.c1.offset <= m.c2.offset)

\* Match::rightmost2(), match.cpp:91-95
Rightmost2(m) ==
    /\ m.c2.matchingBases > 0
    /\ \/ m.c1.matchingBases = 0
       \/ m.c2.offset + m.c2.length >= m.c1.offset + m.c1.length

\* validOverlaps with the test of matchingBases left out
ValidOverlapsAnyMate(seq1, seq2, pat, minB, minOv, m) ==
    IF pat.hasBraces
       THEN \/ /\ OverlapLeft(seq1, pat, m.c1.offset, minB, minOv)
               /\ OverlapRight(seq1, pat, m.c1.offset, minB, minOv)
            \/ /\ OverlapLeft(seq2, pat, m.c2.offset, minB, minOv)
               /\ OverlapRight(seq2, pat, m.c2.offset, minB, minOv)
       ELSE LET left1  == Leftmost1(m)
                right2 == Rightmost2(m)
            IN  /\ OverlapLeft(IF left1 THEN seq1 ELSE seq2, pat,
                               IF left1 THEN m.c1.offset ELSE m.c2.offset,
                               minB, minOv)
                /\ OverlapRight(IF right2 THEN seq2 ELSE seq1, pat,
                                IF right2 THEN m.c2.offset ELSE m.c1.offset,
                                minB, minOv)

\* validOverlaps(), match.cpp:448-477
ValidOverlaps(seq1, seq2, pat, minB, minOv, m) ==
    IF pat.hasBraces
       THEN \/ /\ m.c1.matchingBases > 0
               /\ OverlapLeft(seq1, pat, m.c1.offset, minB, minOv)
               /\ OverlapRight(seq1, pat, m.c1.offset, minB, minOv)
            \/ /\ m.c2.matchingBases > 0
               /\ OverlapLeft(seq2, pat, m.c2.offset, minB, minOv)
               /\ OverlapRight(seq2, pat, m.c2.offset, minB, minOv)
       ELSE LET left1  == Leftmost1(m)
                right2 == Rightmost2(m)
            IN  /\ OverlapLeft(IF left1 THEN seq1 ELSE seq2, pat,
                               IF left1 THEN m.c1.offset ELSE m.c2.offset,
                               minB, minOv)
                /\ OverlapRight(IF right2 THEN seq2 ELSE seq1, pat,
                                IF right2 THEN m.c2.offset ELSE m.c1.offset,
                                minB, minOv)

\* the strings of n bases
RECURSIVE Strings(_)
Strings(n) ==
    IF n = 0 THEN {<<>>}
    ELSE {Append(t, b) : t \in Strings(n - 1), b \in Bases}

\* the patterns the Pattern constructor accepts (pattern.cpp:73-104): the
\* first delimiter not at position 0, the second not at the last position.
\* The matcher compares bases for equality only, so exchanging A and C in
\* the pattern and in both reads changes no result: the pattern sequences
\* explored start with A.
Patterns ==
    {[sequence |-> t, leftBases |-> l, rightBases |-> r, hasBraces |-> h] :
        t \in {u \in Strings(PatLen) : u[1] = "A"},
        l \in 1..(PatLen - 1), r \in 1..(PatLen - 1), h \in BOOLEAN}

\* the number of matching bases getCandidates computes for a read placed at
\* an offset of the pattern, match.cpp:232-236
CandidateBases(sequence, pat, offset) ==
    LengthOfLCS(sequence, 0, Len(sequence), pat.sequence, offset,
                Min(Len(sequence), Len(pat.sequence) - offset))

\* a Candidate of getCandidates (match.cpp:238-252): it passed the test of
\* the matching bases
CandidateAt(sequence, pat, offset) ==
    [index |-> 0, offset |-> offset, length |-> Len(sequence),
     matchingBases |-> CandidateBases(sequence, pat, offset)]

\* the unmatched mate getBestSingle builds, match.cpp:322-323
UnmatchedMate(c, mateLength) ==
    [index |-> c.index, offset |-> c.offset, length |-> mateLength,
     matchingBases |-> 0]

\* the arguments of validOverlaps: a pattern, the two sequences the
\* candidates were found for, and a match of getMatches: two candidates, or
\* one candidate and its unmatched mate
OverlapInit ==
    /\ opc = "ready"
    /\ minBases \in MinBasesValues
    /\ minOverlap \in MinOverlaps
    /\ pattern \in {q \in Patterns : q.leftBases + q.rightBases <= PatLen}
    /\ sequence1 \in Strings(SeqLens[1])
    /\ \E kind \in {"pair", "single1", "single2"}, o1 \in 0..(PatLen - 1) :
          LET k1 == CandidateAt(sequence1, pattern, o1)
          IN  /\ kind \in {"pair", "single1"} =>
                    k1.matchingBases
                        >= ComputeMinMatches(Len(sequence1), minBases)
              /\ sequence2 \in Strings(SeqLens[2])
              /\ \E o2 \in (IF kind = "pair" THEN 0..(PatLen - 1) ELSE {o1}) :
                    LET k2 == CandidateAt(sequence2, pattern, o2)
                    IN  /\ kind \in {"pair", "single2"} =>
                              k2.matchingBases
                                  >= ComputeMinMatches(Len(sequence2), minBases)
                        /\ match =
                              [c1 |-> IF kind = "single2"
                                         THEN UnmatchedMate(k2, Len(sequence1))
                                         ELSE k1,
                               c2 |-> IF kind = "single1"
                                         THEN UnmatchedMate(k1, Len(sequence2))
                                         ELSE k2]
    /\ valid = FALSE
    /\ foundHit = FALSE

\* the call of validOverlaps
CallValidOverlaps ==
    /\ opc = "ready"
    /\ valid' = ValidOverlaps(sequence1, sequence2, pattern, minBases,
                              minOverlap, match)
    /\ opc' = "done"
    /\ UNCHANGED <<pattern, sequence1, sequence2, match, minBases, minOverlap,
                   foundHit>>
    /\ UNCHANGED <<wvars, mvars, fvars, ivars>>

\* overlapLeft(), fuzzion2.cpp:284-301
ProgramOverlapLeft(sequence, pat, offset, minB, minOv) ==
    LET maxPatternLen == Len(pat.sequence) - offset
        patternLen    == Min(Len(sequence), maxPatternLen)
        overlapBases  == Min(patternLen, pat.leftBases - offset)
    IN  IF overlapBases < minOv THEN FALSE
        ELSE IF overlapBases = patternLen THEN TRUE
        ELSE PatternLengthOfLCS(sequence, 0, overlapBases,
                                pat.sequence, offset, overlapBases)
                 >= ComputeMinMatches(overlapBases, minB)

\* overlapRight(), fuzzion2.cpp:307-325
ProgramOverlapRight(sequence, pat, offset, minB, minOv) ==
    LET maxPatternLen == Len(pat.sequence) - offset
        patternLen    == Min(Len(sequence), maxPatternLen)
        overlapBases  == patternLen + Min(0, pat.rightBases - maxPatternLen)
    IN  IF overlapBases < minOv THEN FALSE
        ELSE IF overlapBases = patternLen THEN TRUE
        ELSE PatternLengthOfLCS(sequence, Len(sequence) - overlapBases,
                                overlapBases, pat.sequence,
                                offset + patternLen - overlapBases,
                                overlapBases)
                 >= ComputeMinMatches(overlapBases, minB)

\* processOrientation(), fuzzion2.cpp:341-354: foundHit for the pattern and
\* the offsets bestMatch returned; revcomp is the reverse complement of the
\* second sequence
FoundHit(seq1, revcomp, pat, offset1, offset2, minB, minOv) ==
    IF pat.hasBraces
       THEN \/ /\ ProgramOverlapLeft(seq1, pat, offset1, minB, minOv)
               /\ ProgramOverlapRight(seq1, pat, offset1, minB, minOv)
            \/ /\ ProgramOverlapLeft(revcomp, pat, offset2, minB, minOv)
               /\ ProgramOverlapRight(revcomp, pat, offset2, minB, minOv)
       ELSE /\ ProgramOverlapLeft(seq1, pat, offset1, minB, minOv)
            /\ ProgramOverlapRight(revcomp, pat, offset2, minB, minOv)

\* findCandidates(), pattern.cpp:306-313: the sequence placed at the offset
\* has enough matching bases to be a candidate
IsCandidate(sequence, pat, offset, minB) ==
    PatternLengthOfLCS(sequence, 0, Len(sequence), pat.sequence, offset,
                       Min(Len(sequence), Len(pat.sequence) - offset))
        >= ComputeMinMatches(Len(sequence), minB)

\* processOrientation(), fuzzion2.cpp:335-354, for a pattern and offsets that
\* bestMatch can return: two candidates of findCandidates, the first not
\* behind the second (fuzzion2.cpp:254); sequence2 is the reverse
\* complement of the second read
CallProcessOrientation ==
    /\ opc = "ready"
    /\ match.c1.matchingBases > 0
    /\ match.c2.matchingBases > 0
    /\ match.c1.offset <= match.c2.offset
    /\ IsCandidate(sequence1, pattern, match.c1.offset, minBases)
    /\ IsCandidate(sequence2, pattern, match.c2.offset, minBases)
    /\ foundHit' = FoundHit(sequence1, sequence2, pattern, match.c1.offset,
                            match.c2.offset, minBases, minOverlap)
    /\ opc' = "tested"
    /\ UNCHANGED <<pattern, sequence1, sequence2, match, minBases, minOverlap,
                   valid>>
    /\ UNCHANGED <<wvars, mvars, fvars, ivars>>

OverlapNext == CallValidOverlaps \/ CallProcessOrientation

\* the overlap tests alone, from every argument of OverlapInit
OverlapStart ==
    WorkerOff /\ MatcherOff /\ OverlapInit /\ FunctionsOff /\ InputReaderOff

OverlapSpec == OverlapStart /\ [][OverlapNext]_vars

(***************************************************************************)
(* Properties of the overlap validation.                                   *)
(***************************************************************************)
RECURSIVE Lcs(_, _)
\* the length of a longest common subsequence of two sequences
Lcs(a, b) ==
    IF a = <<>> \/ b = <<>> THEN 0
    ELSE IF Head(a) = Head(b) THEN 1 + Lcs(Tail(a), Tail(b))
    ELSE Max(Lcs(Tail(a), b), Lcs(a, Tail(b)))

\* the positions of the pattern sequence that a read placed at an offset
\* covers, and the left and the right side of the pattern
Footprint(seq, offset) ==
    offset..(Min(offset + Len(seq), Len(pattern.sequence)) - 1)
LeftSide == 0..(pattern.leftBases - 1)
RightSide ==
    (Len(pattern.sequence) - pattern.rightBases)..(Len(pattern.sequence) - 1)

LeftOverlapOf(seq, offset) == Cardinality(Footprint(seq, offset) \cap LeftSide)
RightOverlapOf(seq, offset) ==
    Cardinality(Footprint(seq, offset) \cap RightSide)

\* the mate is junction-spanning on its own: it is a matched mate, its
\* overlaps with both sides are at least minOverlap, and on each side the
\* LCS of its overlapping bases and the pattern's is at least minBases
\* percent of the overlap
Spanning(c, seq) ==
    LET lo   == LeftOverlapOf(seq, c.offset)
        ro   == RightOverlapOf(seq, c.offset)
        last == Min(c.offset + Len(seq), Len(pattern.sequence))
    IN  /\ c.matchingBases > 0
        /\ lo >= minOverlap
        /\ ro >= minOverlap
        /\ 100 * Lcs(SubSeq(seq, 1, lo),
                     SubSeq(pattern.sequence, c.offset + 1, c.offset + lo))
              >= minBases * lo
        /\ 100 * Lcs(SubSeq(seq, Len(seq) - ro + 1, Len(seq)),
                     SubSeq(pattern.sequence, last - ro + 1, last))
              >= minBases * ro

SomeMateSpanning ==
    Spanning(match.c1, sequence1) \/ Spanning(match.c2, sequence2)

\* C8: a match on an ITD pattern (hasBraces) passes validation only if one
\* matched mate is junction-spanning on its own; an unmatched mate
\* (matchingBases = 0) never counts.  This holds of validOverlaps and of
\* the test processOrientation makes.
C8_ItdNeedsSpanningMate ==
    /\ (opc = "done" /\ pattern.hasBraces /\ valid) => SomeMateSpanning
    /\ (opc = "tested" /\ pattern.hasBraces /\ foundHit) => SomeMateSpanning

\* C8 witness: validOverlaps accepts a match on an ITD pattern whose first
\* mate spans the junction and whose second mate is an unmatched mate that
\* overlaps both sides
C8_Witness ==
    /\ opc = "done"
    /\ pattern.hasBraces
    /\ valid
    /\ Spanning(match.c1, sequence1)
    /\ match.c2.matchingBases = 0
    /\ LeftOverlapOf(sequence2, match.c2.offset) >= minOverlap
    /\ RightOverlapOf(sequence2, match.c2.offset) >= minOverlap

\* a fusion pattern carries no such requirement: validOverlaps accepts a
\* match on a fusion pattern of which no mate spans the junction
C8_FusionWithoutSpanning ==
    /\ opc = "done"
    /\ ~pattern.hasBraces
    /\ valid
    /\ ~SomeMateSpanning

(***************************************************************************)
(* The lengths of the overlaps alone: reads and patterns of one base       *)
(* repeated, so that every comparison of bases agrees, and reads of        *)
(* different lengths.                                                      *)
(***************************************************************************)
\* largest read length explored
MaxReadLen == 4

\* the values of minOverlap explored here
LengthMinOverlaps == {1, 2, 3}

\* the sequence of n bases b
Repeat(b, n) == [i \in 1..n |-> b]

\* the arguments of validOverlaps as in OverlapInit, for reads of 1 to
\* MaxReadLen bases that agree with the pattern in every base
OverlapLengthInit ==
    /\ opc = "ready"
    /\ minBases \in MinBasesValues
    /\ minOverlap \in LengthMinOverlaps
    /\ pattern \in {q \in Patterns : /\ q.sequence = Repeat("A", PatLen)
                                     /\ q.leftBases + q.rightBases <= PatLen}
    /\ sequence1 \in {Repeat("A", n) : n \in 1..MaxReadLen}
    /\ sequence2 \in {Repeat("A", n) : n \in 1..MaxReadLen}
    /\ \E kind \in {"pair", "single1", "single2"}, o1 \in 0..(PatLen - 1) :
          \E o2 \in (IF kind = "pair" THEN 0..(PatLen - 1) ELSE {o1}) :
              LET k1 == CandidateAt(sequence1, pattern, o1)
                  k2 == CandidateAt(sequence2, pattern, o2)
              IN  match =
                      [c1 |-> IF kind = "single2"
                                 THEN UnmatchedMate(k2, Len(sequence1))
                                 ELSE k1,
                       c2 |-> IF kind = "single1"
                                 THEN UnmatchedMate(k1, Len(sequence2))
                                 ELSE k2]
    /\ valid = FALSE
    /\ foundHit = FALSE

OverlapLengthStart ==
    /\ WorkerOff /\ MatcherOff /\ OverlapLengthInit
    /\ FunctionsOff /\ InputReaderOff

OverlapLengthSpec == OverlapLengthStart /\ [][OverlapNext]_vars

\* every base of a matched mate equals the base of the pattern it is
\* aligned to
ExactMate(c, seq) ==
    c.matchingBases > 0 =>
        \A i \in 1..Len(seq) :
            c.offset + i <= Len(pattern.sequence) =>
                seq[i] = pattern.sequence[c.offset + i]

ExactReads == ExactMate(match.c1, sequence1) /\ ExactMate(match.c2, sequence2)

\* the overlap of a mate with a side of the pattern; an unmatched mate has
\* none
MateLeftOverlap(c, seq) ==
    IF c.matchingBases > 0 THEN LeftOverlapOf(seq, c.offset) ELSE 0
MateRightOverlap(c, seq) ==
    IF c.matchingBases > 0 THEN RightOverlapOf(seq, c.offset) ELSE 0

\* max(c1.leftOverlap, c2.leftOverlap) >= minOverlap and
\* max(c1.rightOverlap, c2.rightOverlap) >= minOverlap
LengthsMet ==
    /\ Max(MateLeftOverlap(match.c1, sequence1),
           MateLeftOverlap(match.c2, sequence2)) >= minOverlap
    /\ Max(MateRightOverlap(match.c1, sequence1),
           MateRightOverlap(match.c2, sequence2)) >= minOverlap

\* C12: the overlap-length condition of match validation is that the larger
\* of the two mates' left overlaps and the larger of their right overlaps
\* are both at least minOverlap, whichever mate is leftmost or rightmost: a
\* valid match meets it, and a match on a fusion pattern whose reads agree
\* with the pattern in every base is valid exactly when it meets it.  For
\* processOrientation this is stated for minOverlap > 1, where the count of
\* pattern.cpp's lengthOfLCS decides no overlap of exact reads.
C12_OverlapLengthIsMax ==
    /\ (opc = "done" /\ valid) => LengthsMet
    /\ (opc = "tested" /\ foundHit) => LengthsMet
    /\ (opc = "done" /\ ~pattern.hasBraces /\ ExactReads /\ LengthsMet)
          => valid
    /\ (opc = "tested" /\ ~pattern.hasBraces /\ ExactReads /\ LengthsMet
            /\ minOverlap > 1)
          => foundHit

\* the same condition where only its necessity is stated: a match that
\* validOverlaps or processOrientation accepts has, on each side, a mate
\* that overlaps the side by at least minOverlap
C12_ValidMeetsLengths ==
    /\ (opc = "done" /\ valid) => LengthsMet
    /\ (opc = "tested" /\ foundHit) => LengthsMet

\* validOverlaps rejects a match on a fusion pattern although the second
\* mate overlaps each side by minOverlap bases: the first mate is leftmost
\* and shorter than minOverlap
C12_ShortLeftmostRejected ==
    /\ opc = "done"
    /\ ~pattern.hasBraces
    /\ ExactReads
    /\ LengthsMet
    /\ ~valid
    /\ Leftmost1(match)
    /\ Len(sequence1) < minOverlap

(***************************************************************************)
(* Part III.  Functions that keep no state between calls.  A string is a   *)
(* TLA+ sequence of one-character strings; positions of the source are     *)
(* 0-based, those of a TLA+ sequence 1-based.                              *)
(***************************************************************************)
\* std::string::find of a character, 0-based; -1 stands for npos
Find(s, ch) ==
    IF \E i \in 1..Len(s) : s[i] = ch
       THEN (CHOOSE i \in 1..Len(s) :
                s[i] = ch /\ \A j \in 1..(i - 1) : s[j] # ch) - 1
       ELSE -1

\* std::string::substr(pos, n) for 0 <= pos <= Len(s)
Substr(s, pos, n) == SubSeq(s, pos + 1, Min(pos + n, Len(s)))

\* Pattern::Pattern(), pattern.cpp:73-104: what the constructor stores, or
\* the error it throws
PatternCtor(inSequence) ==
    LET rb     == Find(inSequence, "]")
        lb     == Find(inSequence, "[")
        rc     == Find(inSequence, "}")
        lc     == Find(inSequence, "{")
        brackets == rb # -1 /\ lb # -1
        braces   == ~brackets /\ rc # -1 /\ lc # -1
        delim1 == IF brackets THEN rb ELSE rc
        delim2 == IF brackets THEN lb ELSE lc
    IN  IF \/ ~(brackets \/ braces)
           \/ delim1 = 0
           \/ delim2 = Len(inSequence) - 1
           \/ delim1 > delim2
           THEN [threw |-> "invalid pattern"]
           ELSE LET middleBases == delim2 - delim1 - 1
                    leftBases   == delim1
                    rightBases  == Len(inSequence) - 1 - delim2
                IN  [threw |-> "",
                     displaySequence |-> inSequence,
                     hasBraces |-> braces,
                     leftBases |-> leftBases,
                     middleBases |-> middleBases,
                     rightBases |-> rightBases,
                     sequence |-> Substr(inSequence, 0, leftBases)
                                  \o Substr(inSequence, delim1 + 1, middleBases)
                                  \o Substr(inSequence, delim2 + 1, rightBases)]

\* longest pattern line explored
MaxDisplayLen == 5

\* the characters of a pattern line explored: one base and the delimiters
PatternChars == {"A", "]", "[", "}", "{"}

RECURSIVE StringsOver(_, _)
\* the strings of n characters of the set chars
StringsOver(chars, n) ==
    IF n = 0 THEN {<<>>}
    ELSE {Append(t, c) : t \in StringsOver(chars, n - 1), c \in chars}

\* the arguments of the constructor
PatternArgs ==
    {[fn |-> "Pattern", inSequence |-> t] :
        t \in UNION {StringsOver(PatternChars, n) : n \in 0..MaxDisplayLen}}

PatternInit ==
    /\ fpc = "ready"
    /\ args \in PatternArgs
    /\ result = <<>>

\* readPatterns(), pattern.cpp: new Pattern(name, sequence)
CallPattern ==
    /\ fpc = "ready"
    /\ args.fn = "Pattern"
    /\ result' = PatternCtor(args.inSequence)
    /\ fpc' = "done"
    /\ UNCHANGED <<args, wvars, mvars, ovars, ivars>>

\* nothing but one function call is part of the specification
OthersOff == WorkerOff /\ MatcherOff /\ OverlapOff /\ InputReaderOff

PatternStart == OthersOff /\ PatternInit

PatternSpec == PatternStart /\ [][CallPattern]_vars

Delimiters == {"]", "[", "}", "{"}

\* the 1-based positions of the delimiter characters of s
DelimiterPositions(s) == {i \in 1..Len(s) : s[i] \in Delimiters}

RECURSIVE WithoutDelimiters(_)
WithoutDelimiters(s) ==
    IF s = <<>> THEN <<>>
    ELSE IF Head(s) \in Delimiters THEN WithoutDelimiters(Tail(s))
    ELSE <<Head(s)>> \o WithoutDelimiters(Tail(s))

\* s has exactly two delimiter characters, which form one pair, ] before [
\* or } before {, the first not at position 0 and the second not last
WellFormedPattern(s) ==
    \E i, j \in 1..Len(s) :
        /\ DelimiterPositions(s) = {i, j}
        /\ i < j
        /\ 1 < i
        /\ j < Len(s)
        /\ \/ s[i] = "]" /\ s[j] = "["
           \/ s[i] = "}" /\ s[j] = "{"

PatternReturned == fpc = "done" /\ args.fn = "Pattern"

\* C13: the Pattern constructor accepts a sequence exactly when it is
\* well-formed (exactly two delimiters forming one pair, the first not at
\* position 0, the second not last) and throws "invalid pattern" for every
\* other; the stored sequence of an accepted pattern is the display sequence
\* without its two delimiters, holds no delimiter character and has
\* leftBases + middleBases + rightBases characters.
C13_AcceptsExactlyWellFormed ==
    PatternReturned =>
        /\ result.threw \in {"", "invalid pattern"}
        /\ result.threw = "" <=> WellFormedPattern(args.inSequence)
        /\ result.threw = "" =>
              /\ result.sequence = WithoutDelimiters(args.inSequence)
              /\ DelimiterPositions(result.sequence) = {}
              /\ Len(result.sequence) =
                    result.leftBases + result.middleBases + result.rightBases

\* the constructor accepts a sequence with a third delimiter and stores a
\* sequence that holds a delimiter character
C13_DelimiterStored ==
    /\ PatternReturned
    /\ result.threw = ""
    /\ Cardinality(DelimiterPositions(args.inSequence)) > 2
    /\ DelimiterPositions(result.sequence) # {}

\* what the constructor does guarantee: every well-formed sequence is
\* accepted, and an accepted pattern stores the display sequence without
\* the two delimiters found, of leftBases + middleBases + rightBases
\* characters
C13_WellFormedAccepted ==
    PatternReturned =>
        /\ WellFormedPattern(args.inSequence) =>
              /\ result.threw = ""
              /\ result.sequence = WithoutDelimiters(args.inSequence)
        /\ result.threw = "" =>
              Len(result.sequence) =
                  result.leftBases + result.middleBases + result.rightBases

(***************************************************************************)
(* readRankTable() of rank.cpp.  A rank file is a record [signature, k,    *)
(* body]: the signature read ("none" when the file ends before it), the    *)
(* byte k (-1 when the file ends before it) and the bytes that follow.     *)
(* The table of a supported k holds 4^k ranks of four bytes; the tables    *)
(* explored hold 4^ScaledK ranks of RankBytes bytes, a byte being one of   *)
(* ByteValues, so that a rank is in 0..(4^ScaledK - 1).                    *)
(***************************************************************************)
MAX_KMER_LENGTH == 15

ScaledK == 1
RankBytes == 2
ByteValues == {0, 1}

\* numKmers(), kmer.h:33-34
NumKmers(k) == IF k <= MAX_KMER_LENGTH THEN 4^ScaledK ELSE 0

\* the KmerRank stored in RankBytes bytes of memory, least significant
\* byte first
RECURSIVE WordOf(_)
WordOf(bytes) ==
    IF bytes = <<>> THEN 0
    ELSE Head(bytes) + Cardinality(ByteValues) * WordOf(Tail(bytes))

\* swapBytes(), util.cpp: the bytes in reverse order
SwapBytes(bytes) == [i \in 1..Len(bytes) |-> bytes[Len(bytes) + 1 - i]]

\* readRankTable(), rank.cpp:129-169: the table returned, as a function from
\* the k-mers to their ranks, or the error thrown
ReadRankTable(file) ==
    IF file.signature \notin {"NOSWAP", "SWAP"} \/ file.k = -1
       THEN [threw |-> "is not a k-mer rank file"]
    ELSE IF file.k < 4 \/ file.k > MAX_KMER_LENGTH
       THEN [threw |-> "unsupported k-mer length"]
    ELSE LET n        == NumKmers(file.k)
             quarter  == n \div 4
             numBytes == quarter * RankBytes
             word(kmer) == SubSeq(file.body, kmer * RankBytes + 1,
                                  (kmer + 1) * RankBytes)
         IN  IF Len(file.body) < 4 * numBytes
                THEN [threw |-> "truncated k-mer rank file"]
             ELSE IF Len(file.body) > 4 * numBytes
                THEN [threw |-> "invalid k-mer rank file"]
             ELSE [threw |-> "",
                   k |-> file.k,
                   n |-> n,
                   rank |-> [kmer \in 0..(n - 1) |->
                                WordOf(IF file.signature = "SWAP"
                                          THEN SwapBytes(word(kmer))
                                          ELSE word(kmer))]]

\* the files explored: with and without signature and k, a k below, inside
\* and above the supported range, and up to one byte more than a table
RankFiles ==
    {[signature |-> s, k |-> k, body |-> b] :
        s \in {"none", "other", "NOSWAP", "SWAP"},
        k \in {-1, 3, 4, MAX_KMER_LENGTH, MAX_KMER_LENGTH + 1},
        b \in UNION {StringsOver(ByteValues, n) :
                        n \in 0..(RankBytes * 4^ScaledK + 1)}}

RankArgs == {[fn |-> "readRankTable", file |-> f] : f \in RankFiles}

RankInit ==
    /\ fpc = "ready"
    /\ args \in RankArgs
    /\ result = <<>>

\* readRankTable(binaryFilename)
CallReadRankTable ==
    /\ fpc = "ready"
    /\ args.fn = "readRankTable"
    /\ result' = ReadRankTable(args.file)
    /\ fpc' = "done"
    /\ UNCHANGED <<args, wvars, mvars, ovars, ivars>>

RankStart == OthersOff /\ RankInit

RankSpec == RankStart /\ [][CallReadRankTable]_vars

RankTableLoaded ==
    fpc = "done" /\ args.fn = "readRankTable" /\ result.threw = ""

\* C14: after readRankTable has loaded a table without error, the ranks are
\* a permutation of [0, 4^k): every rank of the range is the rank of exactly
\* one k-mer.
C14_RanksArePermutation ==
    RankTableLoaded =>
        \A r \in 0..(result.n - 1) :
            Cardinality({kmer \in DOMAIN result.rank :
                            result.rank[kmer] = r}) = 1

\* a file of the right length in which every rank is 0 is loaded without
\* error
C14_ConstantTableLoaded ==
    /\ RankTableLoaded
    /\ \A kmer \in DOMAIN result.rank : result.rank[kmer] = 0

(***************************************************************************)
(* Part IV.  InputReader of pairread.cpp: a series of pair readers read    *)
(* one after the other.  A child is a record [pairs, next, isOpen]: the    *)
(* number of pairs its file holds, the number it has delivered, whether it *)
(* is open.  The caller opens the reader, gets pairs until getNextPair     *)
(* returns false or throws, and closes it.  A log entry is a record        *)
(* [ev, child, k].                                                         *)
(***************************************************************************)
\* largest number of children and of pairs in one child
MaxReaders == 3
MaxChildPairs == 2
\* calls of getNextPair made after it has returned false
MaxCallsAfterEnd == 1

Event(ev, child, k) == [ev |-> ev, child |-> child, k |-> k]

\* InputReader(inReaderVector), pairread.h:43-44
InputReaderInit ==
    /\ ipc = "constructed"
    /\ readerVector \in
          UNION {[1..n -> {[pairs |-> p, next |-> 0, isOpen |-> FALSE] :
                              p \in 0..MaxChildPairs}] : n \in 0..MaxReaders}
    /\ currentReader = -1
    /\ log = <<>>

\* a close() that leaves current as it is
CloseReaderKeepCurrent(st) ==
    LET c == st.current
    IN  IF c >= 0 /\ c < Len(st.rv)
           THEN [st EXCEPT !.rv[c + 1].isOpen = FALSE,
                           !.log = Append(@, Event("close", c, 0))]
           ELSE st

\* InputReader::close(), pairread.cpp:62-68, on st = [rv, current, log]
CloseReader(st) ==
    LET c == st.current
    IN  IF c >= 0 /\ c < Len(st.rv)
           THEN [st EXCEPT !.rv[c + 1].isOpen = FALSE,
                           !.current = -1,
                           !.log = Append(@, Event("close", c, 0))]
           ELSE [st EXCEPT !.current = -1]

\* InputReader::open(), pairread.cpp:18-28, when the child's open() returns
OpenCall ==
    /\ IF Len(readerVector) = 0
          THEN /\ ipc' = "failed"
               /\ log' = Append(log, Event("threw", -1, 0))
               /\ UNCHANGED <<readerVector, currentReader>>
          ELSE LET st == IF currentReader >= 0
                            THEN CloseReader([rv |-> readerVector,
                                              current |-> currentReader,
                                              log |-> log])
                            ELSE [rv |-> readerVector,
                                  current |-> currentReader,
                                  log |-> log]
               IN  /\ readerVector' = [st.rv EXCEPT ![1].isOpen = TRUE,
                                                    ![1].next = 0]
                   /\ currentReader' = 0
                   /\ log' = Append(st.log, Event("open", 0, 0))
                   /\ ipc' = "open"
    /\ UNCHANGED <<wvars, mvars, ovars, fvars>>

\* open() as fuzzion2 calls it: once, on the reader it has constructed
Open == ipc = "constructed" /\ OpenCall

\* a loop of getNextPair that goes on to the last child but one only
HasNextReaderButLast(c, numReaders) == c + 2 < numReaders

\* pairread.cpp:46: there is a next reader in the series
HasNextReader(c, numReaders) == c + 1 < numReaders

RECURSIVE GetNextPairLoop(_)
\* pairread.cpp:45-55: the loop of getNextPair on st = [rv, current, log,
\* ret], for a current that is in range
GetNextPairLoop(st) ==
    LET c     == st.current
        child == st.rv[c + 1]
    IN  IF child.next < child.pairs
           THEN [st EXCEPT !.rv[c + 1].next = @ + 1,
                           !.log = Append(@, Event("pair", c, child.next + 1)),
                           !.ret = TRUE]
        ELSE LET st1 == [st EXCEPT !.log = Append(@, Event("eof", c, 0))]
             IN  IF HasNextReader(c, Len(st.rv))
                    THEN GetNextPairLoop(
                            [st1 EXCEPT !.rv[c + 1].isOpen = FALSE,
                                        !.rv[c + 2].isOpen = TRUE,
                                        !.rv[c + 2].next = 0,
                                        !.current = c + 1,
                                        !.log = @ \o <<Event("close", c, 0),
                                                       Event("open", c + 1, 0)>>])
                    ELSE LET st2 == CloseReader([rv |-> st1.rv,
                                                 current |-> st1.current,
                                                 log |-> st1.log])
                         IN  [rv |-> st2.rv, current |-> st2.current,
                              log |-> Append(st2.log, Event("false", c, 0)),
                              ret |-> FALSE]

\* the calls of getNextPair that returned false
FalseReturns == {i \in 1..Len(log) : log[i].ev = "false"}

\* InputReader::getNextPair(), pairread.cpp:36-57, when no child throws
GetNextPairCall ==
    /\ LET st == IF currentReader < 0 \/ currentReader >= Len(readerVector)
                    THEN [rv |-> readerVector, current |-> currentReader,
                          log |-> Append(log, Event("false", currentReader, 0)),
                          ret |-> FALSE]
                    ELSE GetNextPairLoop([rv |-> readerVector,
                                          current |-> currentReader,
                                          log |-> log, ret |-> FALSE])
       IN  /\ readerVector' = st.rv
           /\ currentReader' = st.current
           /\ log' = st.log
           /\ ipc' = IF st.ret THEN "open" ELSE "eof"
    /\ UNCHANGED <<wvars, mvars, ovars, fvars>>

\* getNextPair() as fuzzion2 calls it: after open(), and again after it
\* has returned false
GetNextPair ==
    /\ ipc \in {"open", "eof"}
    /\ Cardinality(FalseReturns) <= MaxCallsAfterEnd
    /\ GetNextPairCall

\* getNextPair() when the current child throws on its next pair
\* (fastq.cpp:118, 122): the exception leaves getNextPair at pairread.cpp:45
GetNextPairThrows ==
    /\ ipc = "open"
    /\ currentReader >= 0 /\ currentReader < Len(readerVector)
    /\ readerVector[currentReader + 1].next
          < readerVector[currentReader + 1].pairs
    /\ log' = Append(log, Event("threw", currentReader, 0))
    /\ ipc' = "failed"
    /\ UNCHANGED <<readerVector, currentReader>>
    /\ UNCHANGED <<wvars, mvars, ovars, fvars>>

\* InputReader::close(), pairread.cpp:62-68, called by the owner
CloseCall ==
    /\ LET st == CloseReader([rv |-> readerVector, current |-> currentReader,
                              log |-> log])
       IN  /\ readerVector' = st.rv
           /\ currentReader' = st.current
           /\ log' = st.log
    /\ ipc' = "closed"
    /\ UNCHANGED <<wvars, mvars, ovars, fvars>>

\* close() as fuzzion2 calls it: once, at the end
Close == ipc \in {"open", "eof", "failed"} /\ CloseCall

InputReaderNext == Open \/ GetNextPair \/ GetNextPairThrows \/ Close

InputReaderStart ==
    WorkerOff /\ MatcherOff /\ OverlapOff /\ FunctionsOff /\ InputReaderInit

InputReaderSpec == InputReaderStart /\ [][InputReaderNext]_vars

\* the positions of the log at which a pair was delivered, and the pairs of
\* the children in the order of the series
PairEvents == {i \in 1..Len(log) : log[i].ev = "pair"}

PairsBefore(i) == Cardinality({j \in PairEvents : j < i})

RECURSIVE SeriesFrom(_)
\* the pairs <<child, k>> of the children from child c on, child c first
SeriesFrom(c) ==
    IF c >= Len(readerVector) THEN <<>>
    ELSE [k \in 1..readerVector[c + 1].pairs |-> <<c, k>>]
             \o SeriesFrom(c + 1)

\* C15: getNextPair delivers all pairs of child 0 in order, then all pairs
\* of child 1, and so on, skipping children without pairs: the n-th pair
\* delivered is the n-th pair of the series; it opens child i+1 only after
\* child i has reported end-of-input and has been closed; it returns false
\* only after the last child has reported end-of-input, when every pair has
\* been delivered.
C15_ChildrenInSeries ==
    ipc # "off" =>
        /\ \A i \in PairEvents :
              /\ PairsBefore(i) + 1 <= Len(SeriesFrom(0))
              /\ <<log[i].child, log[i].k>> = SeriesFrom(0)[PairsBefore(i) + 1]
        /\ \A i \in 1..Len(log) :
              (log[i].ev = "open" /\ log[i].child > 0) =>
                  /\ i > 2
                  /\ log[i - 1] = Event("close", log[i].child - 1, 0)
                  /\ log[i - 2] = Event("eof", log[i].child - 1, 0)
        /\ \A i \in FalseReturns :
              /\ \E j \in 1..(i - 1) :
                    log[j] = Event("eof", Len(readerVector) - 1, 0)
              /\ PairsBefore(i) = Len(SeriesFrom(0))
        /\ \A c \in 0..(Len(readerVector) - 1) :
              readerVector[c + 1].isOpen => c = currentReader

\* C15 witness: getNextPair has returned false after it delivered the pairs
\* of the first and of the last of three children and skipped the second,
\* which holds none
C15_Witness ==
    /\ ipc = "eof"
    /\ Len(readerVector) = 3
    /\ readerVector[1].pairs = 2
    /\ readerVector[2].pairs = 0
    /\ readerVector[3].pairs = 1
    /\ Cardinality(PairEvents) = 3
    /\ FalseReturns # {}

(***************************************************************************)
(* namesMatch() of pairread.cpp.                                           *)
(***************************************************************************)
\* longest read name explored, and the characters of the names
MaxNameLen == 3
NameChars == {"a", "1", "2"}

\* the test of pairread.cpp:82 in one direction only
EndsOneThenTwo(name1, name2, last) ==
    name1[last + 1] = "1" /\ name2[last + 1] = "2"

\* pairread.cpp:82-83: one name ends with "1" and the other with "2"
EndsOneAndTwo(name1, name2, last) ==
    \/ name1[last + 1] = "1" /\ name2[last + 1] = "2"
    \/ name1[last + 1] = "2" /\ name2[last + 1] = "1"

\* namesMatch(), pairread.cpp:73-87
NamesMatch(name1, name2) ==
    LET len  == Len(name1)
        last == len - 1
    IN  IF len # Len(name2) THEN FALSE
        ELSE IF last > 0 /\ EndsOneAndTwo(name1, name2, last)
           THEN SubSeq(name1, 1, last) = SubSeq(name2, 1, last)
        ELSE name1 = name2

Names == UNION {StringsOver(NameChars, n) : n \in 0..MaxNameLen}

NamesArgs ==
    {[fn |-> "namesMatch", name1 |-> a, name2 |-> b] : a \in Names, b \in Names}

NamesInit ==
    /\ fpc = "ready"
    /\ args \in NamesArgs
    /\ result = <<>>

\* namesMatch(name1, name2), called at fastq.cpp:115 and 140
CallNamesMatch ==
    /\ fpc = "ready"
    /\ args.fn = "namesMatch"
    /\ result' = [threw |-> "", value |-> NamesMatch(args.name1, args.name2)]
    /\ fpc' = "done"
    /\ UNCHANGED <<args, wvars, mvars, ovars, ivars>>

NamesStart == OthersOff /\ NamesInit

NamesSpec == NamesStart /\ [][CallNamesMatch]_vars

NamesReturned == fpc = "done" /\ args.fn = "namesMatch"

\* a and b have equal length and are identical except that one ends in 1
\* where the other ends in 2
MatesByLastDigit(a, b) ==
    /\ Len(a) = Len(b)
    /\ Len(a) >= 1
    /\ \A i \in 1..(Len(a) - 1) : a[i] = b[i]
    /\ {a[Len(a)], b[Len(b)]} = {"1", "2"}

\* C16: namesMatch(a, b) is true exactly when a equals b, or a and b have
\* equal length and are identical except that one ends in 1 where the other
\* ends in 2, for every pair of names, names of one character included; and
\* namesMatch is symmetric.
C16_NamesMatchAnyLength ==
    NamesReturned =>
        /\ result.value <=> (\/ args.name1 = args.name2
                             \/ MatesByLastDigit(args.name1, args.name2))
        /\ result.value = NamesMatch(args.name2, args.name1)

\* C16 as the code has it: namesMatch(a, b) is true exactly when a equals b,
\* or a and b have equal length of at least two characters and are identical
\* except that one ends in 1 where the other ends in 2; the names "1" and
\* "2" do not match; namesMatch is symmetric.
C16_NamesMatchFromTwoChars ==
    NamesReturned =>
        /\ result.value <=> (\/ args.name1 = args.name2
                             \/ /\ Len(args.name1) >= 2
                                /\ MatesByLastDigit(args.name1, args.name2))
        /\ result.value = NamesMatch(args.name2, args.name1)

\* C16 witness: the one-character names "1" and "2" differ only in that one
\* ends in 1 and the other in 2, and namesMatch has returned false
C16_Witness ==
    /\ NamesReturned
    /\ args.name1 = <<"1">>
    /\ args.name2 = <<"2">>
    /\ MatesByLastDigit(args.name1, args.name2)
    /\ ~result.value

\* ---------------------------------------------------------------------
\* Part V.  Hit files: readHits() of hit.cpp
\*
\* A line of a hit file is a record.  kind is the prefix test the line
\* passes (isHeadingLine, isReadPairLine, isPatternLine, isReadLine, or
\* none of them), valid is the outcome of the column checks made on a
\* line of that kind (isValidHeadingLine, isValidReadPairLine, getPattern,
\* getRead), text tells two heading lines apart, and the other fields are
\* the values the parsers take from the columns.
\* ---------------------------------------------------------------------

MaxLines == 5

MAX_HITS == 2147483647

Line(kind, isValid, text, pairCount, name, leftBases, rightBases, spanningCount, leftOverlap, rightOverlap) ==
    [kind |-> kind, valid |-> isValid, text |-> text,
     count |-> pairCount,
     name |-> name, leftBases |-> leftBases, rightBases |-> rightBases,
     spanningCount |-> spanningCount, leftOverlap |-> leftOverlap,
     rightOverlap |-> rightOverlap]

\* writeHitHeadingLine(), hit.cpp:122-141
HeadingLine(text, isValid) ==
    Line("heading", isValid, text, 0, "", 0, 0, 0, 0, 0)

\* writeReadPairLine(), hit.cpp:185-188
ReadPairLine(pairCount, isValid) ==
    Line("read-pairs", isValid, 0, pairCount, "", 0, 0, 0, 0, 0)

\* HitPattern::write(), hit.cpp:46-64; leftBases and rightBases are what
\* the Pattern constructor finds on either side of the delimiters of the
\* sequence column (hit.h:34-39)
PatternLine(name, leftBases, rightBases, spanningCount, isValid) ==
    Line("pattern", isValid, 0, 0, name, leftBases, rightBases, spanningCount,
         0, 0)

\* HitRead::write(), hit.cpp:70-81; the spanning column holds 0 or 1
ReadLine(name, isSpanning, leftOverlap, rightOverlap, isValid) ==
    Line("read", isValid, 0, 0, name, 0, 0, IF isSpanning THEN 1 ELSE 0,
         leftOverlap, rightOverlap)

OtherLine == Line("other", FALSE, 0, 0, "", 0, 0, 0, 0, 0)

\* hit.cpp:146-149
IsHeadingLine(line) == line.kind = "heading"

\* hit.cpp:154-179
IsValidHeadingLine(line) == IsHeadingLine(line) /\ line.valid

\* hit.cpp:194-197
IsReadPairLine(line) == line.kind = "read-pairs"

\* hit.cpp:203-217
IsValidReadPairLine(line) == IsReadPairLine(line) /\ line.valid

\* hit.cpp:231-260: NULL is <<>>
GetPattern(line) ==
    IF line.kind = "pattern" /\ line.valid
    THEN [name |-> line.name, leftBases |-> line.leftBases,
          rightBases |-> line.rightBases,
          spanningCount |-> line.spanningCount]
    ELSE <<>>

\* hit.cpp:275-309: NULL is <<>>
GetRead(line) ==
    IF line.kind = "read" /\ line.valid
    THEN [name |-> line.name, isSpanning |-> line.spanningCount = 1,
          leftOverlap |-> line.leftOverlap,
          rightOverlap |-> line.rightOverlap]
    ELSE <<>>

\* hit.cpp:316-332: the hit of the pattern line at i and the two lines
\* after it, or <<>>; hit.h:88-89 constructs it with duplicate false
GetHit(lines, i) ==
    IF /\ GetPattern(lines[i]) # <<>>
       /\ i + 1 <= Len(lines) /\ GetRead(lines[i + 1]) # <<>>
       /\ i + 2 <= Len(lines) /\ GetRead(lines[i + 2]) # <<>>
    THEN [pattern |-> GetPattern(lines[i]), read1 |-> GetRead(lines[i + 1]),
          read2 |-> GetRead(lines[i + 2]), duplicate |-> FALSE]
    ELSE <<>>

\* a loop that lets every later heading line pass
InconsistentHeadingNever(line, headingLine) == FALSE

\* hit.cpp:408: a later heading line differs from the first line
InconsistentHeading(line, headingLine) == line # headingLine

RECURSIVE ReadLoop(_, _, _, _)
\* hit.cpp:405-432: the loop over the lines after the heading line, from
\* line i on, with the total and the hits read so far
ReadLoop(lines, i, totalReadPairs, hitVector) ==
    IF i > Len(lines)
    THEN [threw |-> "", value |-> totalReadPairs, hitVector |-> hitVector]
    ELSE IF IsHeadingLine(lines[i])
    THEN IF InconsistentHeading(lines[i], lines[1])
         THEN [threw |-> "inconsistent heading lines",
               value |-> totalReadPairs, hitVector |-> hitVector]
         ELSE ReadLoop(lines, i + 1, totalReadPairs, hitVector)
    ELSE IF IsReadPairLine(lines[i])
    THEN IF IsValidReadPairLine(lines[i])
         THEN ReadLoop(lines, i + 1, totalReadPairs + lines[i].count,
                       hitVector)
         ELSE [threw |-> "unexpected input line",
               value |-> totalReadPairs, hitVector |-> hitVector]
    ELSE IF GetHit(lines, i) # <<>>
    THEN IF Len(hitVector) < MAX_HITS
         THEN ReadLoop(lines, i + 3, totalReadPairs,
                       Append(hitVector, GetHit(lines, i)))
         ELSE [threw |-> "too many hits",
               value |-> totalReadPairs, hitVector |-> hitVector]
    ELSE [threw |-> "unexpected hit format",
          value |-> totalReadPairs, hitVector |-> hitVector]

\* a comparison that leaves rightBases out
SameAsButRight(a, b) ==
    /\ a.pattern.name = b.pattern.name
    /\ a.pattern.leftBases = b.pattern.leftBases

\* hit.cpp:86-91
SameAs(a, b) ==
    /\ a.pattern.name = b.pattern.name
    /\ a.pattern.leftBases = b.pattern.leftBases
    /\ a.pattern.rightBases = b.pattern.rightBases

\* hit.cpp:338-366: names are compared as strings; the model's names are
\* single letters and digits, ordered by NameRank
NameRank(name) ==
    CASE name = "a" -> 1 [] name = "b" -> 2
      [] name = "r1" -> 1 [] name = "r2" -> 2 [] OTHER -> 0

HitCompare(a, b) ==
    IF a.pattern.name # b.pattern.name
    THEN NameRank(a.pattern.name) < NameRank(b.pattern.name)
    ELSE IF a.pattern.leftBases # b.pattern.leftBases
    THEN a.pattern.leftBases < b.pattern.leftBases
    ELSE IF a.pattern.rightBases # b.pattern.rightBases
    THEN a.pattern.rightBases < b.pattern.rightBases
    ELSE IF a.pattern.spanningCount # b.pattern.spanningCount
    THEN a.pattern.spanningCount > b.pattern.spanningCount
    ELSE NameRank(a.read1.name) < NameRank(b.read1.name)

\* hit.cpp:371-374: std::sort leaves any order HitCompare allows
SortHits(hv) ==
    LET n == Len(hv)
        perms == {f \in [1..n -> 1..n] : \A i, j \in 1..n : f[i] = f[j] => i = j}
    IN  {[i \in 1..n |-> hv[f[i]]] : f \in
            {g \in perms : \A i, j \in 1..n :
                i < j => ~HitCompare(hv[g[j]], hv[g[i]])}}

\* hit.cpp:380-387
MarkDuplicates(hv) ==
    [i \in 1..Len(hv) |->
        IF i > 1 /\ SameAs(hv[i], hv[i - 1])
        THEN [hv[i] EXCEPT !.duplicate = TRUE] ELSE hv[i]]

\* hit.cpp:393-440: the results readHits can leave for a file
ReadHits(lines) ==
    IF Len(lines) = 0
    THEN {[threw |-> "no input", value |-> 0, hitVector |-> <<>>]}
    ELSE IF ~IsValidHeadingLine(lines[1])
    THEN {[threw |-> "unexpected heading line", value |-> 0,
           hitVector |-> <<>>]}
    ELSE LET r == ReadLoop(lines, 2, 0, <<>>)
         IN  IF r.threw = "" /\ Len(r.hitVector) > 1
             THEN {[r EXCEPT !.hitVector = MarkDuplicates(hv)] :
                      hv \in SortHits(r.hitVector)}
             ELSE {r}

FileLines ==
    {HeadingLine(1, TRUE), HeadingLine(2, TRUE), HeadingLine(3, FALSE),
     ReadPairLine(1, TRUE), ReadPairLine(2, TRUE), ReadPairLine(0, FALSE),
     PatternLine("a", 1, 1, 0, TRUE), ReadLine("r1", FALSE, 1, 1, TRUE),
     OtherLine}

RECURSIVE Files(_)
Files(n) ==
    IF n = 0 THEN {<<>>}
    ELSE Files(n - 1) \cup
         {Append(f, l) : f \in {g \in Files(n - 1) : Len(g) = n - 1},
                         l \in FileLines}

ReadHitsInit ==
    /\ fpc = "ready"
    /\ args \in {[fn |-> "readHits", lines |-> f] : f \in Files(MaxLines)}
    /\ result = <<>>

\* readHits(istream, version, annotationHeading, hitVector)
CallReadHits ==
    /\ fpc = "ready"
    /\ args.fn = "readHits"
    /\ result' \in ReadHits(args.lines)
    /\ fpc' = "done"
    /\ UNCHANGED <<args, wvars, mvars, ovars, ivars>>

ReadHitsStart == OthersOff /\ ReadHitsInit

ReadHitsSpec == ReadHitsStart /\ [][CallReadHits]_vars

ReadHitsReturned == fpc = "done" /\ args.fn = "readHits"

RECURSIVE Concatenation(_, _)
\* the lines from i on are repeats of the first line, valid read-pairs
\* lines and triplets of a valid pattern line and two valid read lines
Concatenation(lines, i) ==
    \/ i > Len(lines)
    \/ /\ i <= Len(lines)
       /\ \/ lines[i] = lines[1] /\ Concatenation(lines, i + 1)
          \/ /\ lines[i].kind = "read-pairs" /\ lines[i].valid
             /\ Concatenation(lines, i + 1)
          \/ /\ lines[i].kind = "pattern" /\ lines[i].valid
             /\ i + 2 <= Len(lines)
             /\ \A k \in {i + 1, i + 2} :
                    lines[k].kind = "read" /\ lines[k].valid
             /\ Concatenation(lines, i + 3)

RECURSIVE CountSum(_, _)
CountSum(lines, i) ==
    IF i > Len(lines) THEN 0
    ELSE (IF lines[i].kind = "read-pairs" THEN lines[i].count ELSE 0)
         + CountSum(lines, i + 1)

\* C17: readHits accepts exactly the files that are a valid heading line
\* followed by repeats of that heading line, valid read-pairs lines and
\* complete pattern/read/read triplets, and raises an error for every other
\* file; a later heading line that differs from the first always raises an
\* error; for an accepted file the returned total is the sum of the counts
\* of all its read-pairs lines and there is one hit per pattern line.
C17_AcceptsConcatenations ==
    ReadHitsReturned =>
        LET lines == args.lines
        IN  /\ result.threw = "" <=>
                  /\ Len(lines) >= 1
                  /\ lines[1].kind = "heading" /\ lines[1].valid
                  /\ Concatenation(lines, 2)
            /\ (\E i \in 2..Len(lines) :
                    lines[i].kind = "heading" /\ lines[i] # lines[1])
                   => result.threw # ""
            /\ result.threw = "" =>
                  /\ result.value = CountSum(lines, 1)
                  /\ Len(result.hitVector) =
                         Cardinality({i \in 1..Len(lines) :
                                         lines[i].kind = "pattern"})

\* two concatenated files without hits: the heading line twice, and the
\* counts 1 and 2 added
C17_Witness ==
    /\ ReadHitsReturned
    /\ result.threw = ""
    /\ Len(args.lines) = 4
    /\ args.lines[2].kind = "read-pairs"
    /\ args.lines[3] = args.lines[1]
    /\ args.lines[4].kind = "read-pairs"
    /\ result.value = 3

\* ---------------------------------------------------------------------
\* readHits() on well-formed files: the order of the stored hits and the
\* duplicate flags
\* ---------------------------------------------------------------------

MaxHits == 3

PatternNames == {"a", "b"}

\* <<leftBases, rightBases>> of the displayed pattern
SideBases == {<<1, 1>>, <<1, 2>>, <<2, 1>>}

SpanningCounts == {0, 1}

ReadNames == {"r1", "r2"}

\* the three lines fuzzion2 writes for a hit (Hit::write, hit.h:99)
Triplets ==
    {<<PatternLine(n, s[1], s[2], c, TRUE),
       ReadLine(r, c = 1, 1, 1, TRUE),
       ReadLine("r2", FALSE, 1, 1, TRUE)>> :
        n \in PatternNames, s \in SideBases, c \in SpanningCounts,
        r \in ReadNames}

RECURSIVE HitFiles(_)
\* a heading line followed by up to n triplets
HitFiles(n) ==
    IF n = 0 THEN {<<HeadingLine(1, TRUE)>>}
    ELSE HitFiles(n - 1) \cup
         {f \o t : f \in {g \in HitFiles(n - 1) : Len(g) = 1 + 3 * (n - 1)},
                   t \in Triplets}

HitSortInit ==
    /\ fpc = "ready"
    /\ args \in {[fn |-> "readHits", lines |-> f] : f \in HitFiles(MaxHits)}
    /\ result = <<>>

HitSortStart == OthersOff /\ HitSortInit

HitSortSpec == HitSortStart /\ [][CallReadHits]_vars

\* two hits agree on (pattern name, leftBases, rightBases)
Agree(a, b) ==
    /\ a.pattern.name = b.pattern.name
    /\ a.pattern.leftBases = b.pattern.leftBases
    /\ a.pattern.rightBases = b.pattern.rightBases

\* C18: after readHits, the hits that agree on (pattern name, leftBases,
\* rightBases) are adjacent in the vector, ordered by descending
\* spanningCount and then ascending first-read name; a hit is flagged
\* duplicate exactly when the hit immediately before it agrees with it; so
\* each group has exactly one hit that is not flagged, and it is the
\* group's first.
C18_GroupsAdjacentAndFlagged ==
    (ReadHitsReturned /\ result.threw = "") =>
        LET hv == result.hitVector
            n == Len(hv)
            group(i) == {j \in 1..n : Agree(hv[j], hv[i])}
        IN  /\ \A i, j \in 1..n :
                   (i < j /\ Agree(hv[i], hv[j])) =>
                       /\ \A k \in i..j : Agree(hv[i], hv[k])
                       /\ \/ hv[i].pattern.spanningCount
                                > hv[j].pattern.spanningCount
                          \/ /\ hv[i].pattern.spanningCount
                                    = hv[j].pattern.spanningCount
                             /\ NameRank(hv[i].read1.name)
                                    <= NameRank(hv[j].read1.name)
            /\ \A i \in 1..n :
                   hv[i].duplicate <=> (i > 1 /\ Agree(hv[i], hv[i - 1]))
            /\ \A i \in 1..n :
                   {j \in group(i) : ~hv[j].duplicate}
                       = {CHOOSE j \in group(i) : \A k \in group(i) : j <= k}

\* three hits read in an order that is not the sorted one: two of pattern a
\* that agree, the one with a spanning read stored first, and one of
\* pattern b that was first in the file
C18_Witness ==
    /\ ReadHitsReturned /\ result.threw = ""
    /\ Len(result.hitVector) = 3
    /\ args.lines[2].name = "b"
    /\ args.lines[5].spanningCount = 0
    /\ args.lines[8].spanningCount = 1
    /\ Agree(result.hitVector[1], result.hitVector[2])
    /\ result.hitVector[1].pattern.spanningCount = 1
    /\ result.hitVector[2].duplicate
    /\ result.hitVector[3].pattern.name = "b"
    /\ ~result.hitVector[3].duplicate

\* ---------------------------------------------------------------------
\* Hit::label() of hit.cpp, on the hits getHit() constructs
\* ---------------------------------------------------------------------

HIT_DUPLICATE == "dup"
HIT_WEAK == "weak"
HIT_STRONG_NOSPAN == "strong-"
HIT_STRONG_SPAN == "strong+"

\* the overlap columns of a read line, and the values of minStrong
OverlapValues == {0, 2}
MinStrongValues == {1, 2, 3}

\* hit.cpp:96-100
HitIsStrong(hit, minStrong) ==
    /\ Max(hit.read1.leftOverlap, hit.read2.leftOverlap) >= minStrong
    /\ Max(hit.read1.rightOverlap, hit.read2.rightOverlap) >= minStrong

\* hit.h:48 and 95: Hit::isSpanning() is HitPattern::isSpanning()
HitIsSpanning(hit) == hit.pattern.spanningCount > 0

\* hit.cpp:105-117
Label(hit, minStrong) ==
    IF hit.duplicate THEN HIT_DUPLICATE
    ELSE IF HitIsStrong(hit, minStrong)
    THEN IF HitIsSpanning(hit) THEN HIT_STRONG_SPAN ELSE HIT_STRONG_NOSPAN
    ELSE HIT_WEAK

\* the triplets getHit() accepts: a spanning count of 0, 1 or 2 on the
\* pattern line (hit.cpp:241-242) and, on each read line, a spanning column
\* of 0 or 1 (hit.cpp:285-286) and two overlaps (hit.cpp:287-288); no
\* statement of getHit compares the pattern line's count with the read lines
LabelTriplets ==
    {<<HeadingLine(1, TRUE), PatternLine("a", 1, 1, c, TRUE),
       ReadLine("r1", s1, l1, r1, TRUE), ReadLine("r2", s2, l2, r2, TRUE)>> :
        c \in {0, 1, 2}, s1 \in BOOLEAN, s2 \in BOOLEAN,
        l1 \in OverlapValues, r1 \in OverlapValues,
        l2 \in OverlapValues, r2 \in OverlapValues}

\* the hit of a triplet, with the flag markDuplicates() may have set
LabelArgs ==
    {[fn |-> "label", hit |-> [GetHit(t, 2) EXCEPT !.duplicate = d],
      minStrong |-> m] :
        t \in LabelTriplets, d \in BOOLEAN, m \in MinStrongValues}

LabelInit ==
    /\ fpc = "ready"
    /\ args \in LabelArgs
    /\ result = <<>>

\* hit->label(minStrong), called at group.cpp:51 and summary.cpp:91
CallLabel ==
    /\ fpc = "ready"
    /\ args.fn = "label"
    /\ result' = [threw |-> "", value |-> Label(args.hit, args.minStrong)]
    /\ fpc' = "done"
    /\ UNCHANGED <<args, wvars, mvars, ovars, ivars>>

LabelStart == OthersOff /\ LabelInit

LabelSpec == LabelStart /\ [][CallLabel]_vars

LabelReturned == fpc = "done" /\ args.fn = "label"

\* both sides are strong: the larger of the mates' overlaps is at least
\* minStrong on the left and on the right
BothSidesStrong ==
    /\ \E r \in {args.hit.read1, args.hit.read2} :
           r.leftOverlap >= args.minStrong
    /\ \E r \in {args.hit.read1, args.hit.read2} :
           r.rightOverlap >= args.minStrong

\* at least one mate of the hit is junction-spanning
SomeHitReadSpanning == args.hit.read1.isSpanning \/ args.hit.read2.isSpanning

\* C19: label(minStrong) is one of dup, strong+, strong-, weak: dup when
\* the hit is flagged duplicate, whatever its overlaps; otherwise strong+
\* when both sides are strong and at least one mate is junction-spanning,
\* strong- when both sides are strong and no mate is spanning, and weak in
\* every other case.
C19_LabelByMates ==
    LabelReturned =>
        result.value =
            IF args.hit.duplicate THEN "dup"
            ELSE IF BothSidesStrong /\ SomeHitReadSpanning THEN "strong+"
            ELSE IF BothSidesStrong THEN "strong-"
            ELSE "weak"

\* the same classification holds of the code with the pattern line's
\* spanning count in the place of the mates' flags
LabelByCount ==
    LabelReturned =>
        result.value =
            IF args.hit.duplicate THEN "dup"
            ELSE IF BothSidesStrong /\ args.hit.pattern.spanningCount > 0
                 THEN "strong+"
            ELSE IF BothSidesStrong THEN "strong-"
            ELSE "weak"

\* a hit that is strong on both sides and has a spanning mate, but a
\* pattern line that counts no spanning read, is labelled strong-
C19_SpanningMateLabelledNoSpan ==
    /\ LabelReturned
    /\ ~args.hit.duplicate
    /\ BothSidesStrong
    /\ args.hit.read1.isSpanning
    /\ args.hit.pattern.spanningCount = 0
    /\ result.value = "strong-"

\* ---------------------------------------------------------------------
\* lengthOfLCS(): the static function of match.cpp and the exported one of
\* pattern.cpp, one call on substrings that lie inside their strings
\* ---------------------------------------------------------------------

MaxLcsLen == 3

LcsStrings == UNION {Strings(n) : n \in 0..MaxLcsLen}

\* the offsets and lengths that keep a substring inside str, and the
\* lengths 0 and -1
SubstringsOf(str) ==
    {<<offset, len>> \in (0..Len(str)) \X (-1..Len(str)) :
        offset + len <= Len(str)}

LcsUnits == {"match.cpp", "pattern.cpp"}

LcsArgs ==
    {[fn |-> "lengthOfLCS", unit |-> u, strA |-> a, offsetA |-> sa[1],
      lenA |-> sa[2], strB |-> b, offsetB |-> sb[1], lenB |-> sb[2]] :
        u \in LcsUnits, a \in LcsStrings, b \in LcsStrings,
        sa \in UNION {SubstringsOf(s) : s \in LcsStrings},
        sb \in UNION {SubstringsOf(s) : s \in LcsStrings}}

LcsInit ==
    /\ fpc = "ready"
    /\ args \in {x \in LcsArgs :
                    /\ <<x.offsetA, x.lenA>> \in SubstringsOf(x.strA)
                    /\ <<x.offsetB, x.lenB>> \in SubstringsOf(x.strB)}
    /\ result = <<>>

\* lengthOfLCS(strA, offsetA, lenA, strB, offsetB, lenB) of match.cpp
CallMatchLengthOfLCS ==
    /\ fpc = "ready"
    /\ args.fn = "lengthOfLCS" /\ args.unit = "match.cpp"
    /\ result' = [threw |-> "",
                  value |-> LengthOfLCS(args.strA, args.offsetA, args.lenA,
                                        args.strB, args.offsetB, args.lenB)]
    /\ fpc' = "done"
    /\ UNCHANGED <<args, wvars, mvars, ovars, ivars>>

\* lengthOfLCS(strA, offsetA, lenA, strB, offsetB, lenB) of pattern.cpp
CallPatternLengthOfLCS ==
    /\ fpc = "ready"
    /\ args.fn = "lengthOfLCS" /\ args.unit = "pattern.cpp"
    /\ result' = [threw |-> "",
                  value |-> PatternLengthOfLCS(args.strA, args.offsetA,
                                               args.lenA, args.strB,
                                               args.offsetB, args.lenB)]
    /\ fpc' = "done"
    /\ UNCHANGED <<args, wvars, mvars, ovars, ivars>>

LcsNext == CallMatchLengthOfLCS \/ CallPatternLengthOfLCS

LcsStart == OthersOff /\ LcsInit

LcsSpec == LcsStart /\ [][LcsNext]_vars

LcsReturned == fpc = "done" /\ args.fn = "lengthOfLCS"

\* the two substrings of a call; empty when the length is not positive
SubA ==
    IF args.lenA <= 0 THEN <<>>
    ELSE SubSeq(args.strA, args.offsetA + 1, args.offsetA + args.lenA)

SubB ==
    IF args.lenB <= 0 THEN <<>>
    ELSE SubSeq(args.strB, args.offsetB + 1, args.offsetB + args.lenB)

\* C20: lengthOfLCS returns the length of a longest common subsequence of
\* the two substrings for all inputs, and 0 when either length is <= 0; so
\* the result lies between 0 and the shorter length, and the result for a
\* substring against itself is its length, strings of length 1 included.
C20_LengthOfLCSIsLcs ==
    LcsReturned =>
        /\ result.value = Lcs(SubA, SubB)
        /\ (args.lenA <= 0 \/ args.lenB <= 0) => result.value = 0
        /\ 0 <= result.value /\ result.value <= Min(Len(SubA), Len(SubB))
        /\ SubA = SubB => result.value = Len(SubA)

\* the function of match.cpp does return the length of a longest common
\* subsequence
MatchLengthOfLCSIsLcs ==
    (LcsReturned /\ args.unit = "match.cpp") =>
        result.value = Lcs(SubA, SubB)

\* the function of pattern.cpp returns the row before the last: the length
\* of a longest common subsequence of the first substring without its last
\* character and the second substring
PatternLengthOfLCSDropsLast ==
    (LcsReturned /\ args.unit = "pattern.cpp" /\ args.lenA > 0
                 /\ args.lenB > 0) =>
        result.value = Lcs(SubSeq(SubA, 1, Len(SubA) - 1), SubB)

\* pattern.cpp's lengthOfLCS("A", 0, 1, "A", 0, 1) returns 0
C20_SingleBaseAgainstItselfIsZero ==
    /\ LcsReturned
    /\ args.unit = "pattern.cpp"
    /\ args.strA = <<"A">> /\ args.offsetA = 0 /\ args.lenA = 1
    /\ args.strB = <<"A">> /\ args.offsetB = 0 /\ args.lenB = 1
    /\ result.value = 0

(***************************************************************************)
(* Part VI.  More properties of the worker pool of Part I.                 *)
(***************************************************************************)
\* positions of a worker whose next step reads or writes endOfInput or
\* numReadPairs: the tests of fuzzion2.cpp:403 and 408, the addition of
\* line 417 and the assignments of lines 425 and 459
SharedAccessPcs == {"getBatch", "testInput", "pull", "line424", "catchSet"}

\* C21: with more than one worker, every read and every write of endOfInput
\* and of numReadPairs by a worker happens while that worker holds the
\* input mutex.
C21_SharedAccessUnderInputMutex ==
    numThreads > 1 =>
        \A w \in Workers : pc[w] \in SharedAccessPcs => inputMutex = w

\* a worker is about to test endOfInput at line 403 without the mutex while
\* the worker that holds the mutex is about to assign the flag at line 425
C21_UnlockedReadMeetsWrite ==
    \E w1, w2 \in Workers :
        /\ w1 # w2
        /\ pc[w1] = "getBatch"
        /\ inputMutex = w2
        /\ pc[w2] = "line424"
        /\ ~endOfInput
        /\ count[w2] < BatchSize

\* every other access than the test of line 403 is made under the mutex
SharedAccessButFirstTest ==
    numThreads > 1 =>
        \A w \in Workers :
            pc[w] \in SharedAccessPcs \ {"getBatch"} => inputMutex = w

\* the pair source has returned end-of-input or raised an error: endOfInput
\* is set, or the worker that made the call is at line 424, still inside
\* the mutex, with a short batch or a message
SourceEnded ==
    \/ endOfInput
    \/ \E w \in Workers :
           pc[w] = "line424" /\ (message[w] # "" \/ count[w] < BatchSize)

\* C28: endOfInput is monotone, once true it is never set back to false;
\* and once it is true, or the pair source has returned end-of-input or
\* raised an error, no worker is in the loop that calls getNextPair, so
\* getNextPair is not called on the source again.
C28_EndOfInputFinal ==
    /\ [][endOfInput => endOfInput']_vars
    /\ [](SourceEnded => \A w \in Workers : pc[w] # "pull")
    /\ [][SourceEnded => (srcPos' = srcPos /\ SourceEnded')]_vars

\* C28 witness: the flag is set while the source still holds pairs, and a
\* worker that read the flag before it was set is about to test it again
\* under the mutex
C28_Witness ==
    \E w \in Workers :
        /\ endOfInput
        /\ srcPos < srcPairs
        /\ pc[w] = "testInput"

\* positions of a worker between inputMutex.lock() and inputMutex.unlock()
InputHeldPcs ==
    {"testInput", "pull", "line424", "unlockInput", "catchSet", "catchUnlock"}

\* positions of a worker that waits for a mutex
LockPcs == {"lockInput", "lockOutput", "catchLock"}

\* each mutex is held by the worker that is between its lock and its
\* unlock, and by nobody else; no worker holds both
MutexesPaired ==
    numThreads > 1 =>
        /\ inputMutex \in Workers \cup {0}
        /\ outputMutex \in Workers \cup {0}
        /\ \A w \in Workers :
              /\ inputMutex = w <=> pc[w] \in InputHeldPcs
              /\ outputMutex = w <=> pc[w] \in WritingPcs
              /\ ~(inputMutex = w /\ outputMutex = w)

\* a worker that takes a mutex holds none, and a worker that has returned
\* holds none
ReleasedBeforeNext ==
    \A w \in Workers :
        /\ (inputMutex # w /\ inputMutex' = w) => outputMutex # w
        /\ (outputMutex # w /\ outputMutex' = w) => inputMutex # w
        /\ pc'[w] = "done" => (inputMutex' # w /\ outputMutex' # w)

\* a worker that records an error holds no mutex
ReleasedBeforeError ==
    \A w \in Workers :
        message'[w] # message[w] => (inputMutex # w /\ outputMutex # w)

\* no worker waits for a mutex forever
NoEndlessWait ==
    \A w \in 1..MaxThreads :
        (w \in Workers /\ pc[w] \in LockPcs)
            ~> (w \in Workers /\ pc[w] \notin LockPcs)

MaxLogLen == 8

\* the events of the log in which a child's getNextPair was called
ChildCalls == {"pair", "eof"}

\* open() at any time
AnyOpen == ipc # "off" /\ Len(log) < MaxLogLen /\ OpenCall

\* open() when the first child cannot open its file (fastq.cpp:25): the
\* exception leaves open() at pairread.cpp:26, after close()
AnyOpenThrows ==
    /\ ipc # "off" /\ Len(log) < MaxLogLen
    /\ Len(readerVector) > 0
    /\ LET st == CloseReader([rv |-> readerVector, current |-> currentReader,
                              log |-> log])
       IN  /\ readerVector' = st.rv
           /\ currentReader' = st.current
           /\ log' = Append(st.log, Event("threw", 0, 0))
    /\ ipc' = "failed"
    /\ UNCHANGED <<wvars, mvars, ovars, fvars>>

\* getNextPair() at any time
AnyGetNextPair == ipc # "off" /\ Len(log) < MaxLogLen /\ GetNextPairCall

\* getNextPair() at any time when the current child throws on its next pair
AnyGetNextPairThrows ==
    /\ ipc # "off" /\ Len(log) < MaxLogLen
    /\ currentReader >= 0 /\ currentReader < Len(readerVector)
    /\ readerVector[currentReader + 1].next
          < readerVector[currentReader + 1].pairs
    /\ log' = Append(log, Event("threw", currentReader, 0))
    /\ ipc' = "failed"
    /\ UNCHANGED <<readerVector, currentReader>>
    /\ UNCHANGED <<wvars, mvars, ovars, fvars>>

\* close() at any time
AnyClose == ipc # "off" /\ Len(log) < MaxLogLen /\ CloseCall

InputReaderAnyNext ==
    AnyOpen \/ AnyOpenThrows \/ AnyGetNextPair \/ AnyGetNextPairThrows
       \/ AnyClose

InputReaderAnyStart == WorkerOff /\ MatcherOff /\ OverlapOff /\ FunctionsOff
                          /\ InputReaderInit

InputReaderAnySpec == InputReaderAnyStart /\ [][InputReaderAnyNext]_vars

\* current is -1 or the index of a child
CurrentInRange ==
    currentReader = -1
       \/ (currentReader >= 0 /\ currentReader < Len(readerVector))

\* no child but the one at current is open
OnlyCurrentOpen ==
    \A c \in 1..Len(readerVector) :
       readerVector[c].isOpen => c = currentReader + 1

\* when the last call was a getNextPair that returned false, current is -1
\* and every child is closed
ClosedAfterFalse ==
    ipc = "eof" => /\ currentReader = -1
                   /\ \A c \in 1..Len(readerVector) : ~readerVector[c].isOpen

\* log[j] belongs to a getNextPair made after the one of log[i] returned
\* false
LaterCall(i, j) == i < j /\ log[i].ev = "false" /\ log[j].ev \in ChildCalls

\* open() was called between log[i] and log[j]
OpenedBetween(i, j) ==
    \E m \in (i + 1)..(j - 1) : log[m] = Event("open", 0, 0)

\* on an empty list of readers open() raises 'no input files' and no
\* child is ever opened or called
EmptyListRaises ==
    Len(readerVector) = 0 =>
       \A i \in 1..Len(log) :
          log[i] \in {Event("threw", -1, 0), Event("false", -1, 0)}

\* C30 as stated: current is -1 or a valid index, only the child at current
\* is open, a false return leaves current at -1 and every child closed,
\* no call of getNextPair made after a false return reaches a child, and
\* open on an empty list raises 'no input files'
C30_FalseIsFinal ==
    /\ CurrentInRange /\ OnlyCurrentOpen /\ ClosedAfterFalse
    /\ EmptyListRaises
    /\ \A i, j \in 1..Len(log) : ~LaterCall(i, j)

\* C30 amended: as C30, for the calls of getNextPair made after a false
\* return and before the next call of open; a call made after open has
\* been called again reads the series from its first child
C30_FalseIsFinalUntilOpen ==
    /\ CurrentInRange /\ OnlyCurrentOpen /\ ClosedAfterFalse
    /\ EmptyListRaises
    /\ \A i, j \in 1..Len(log) : LaterCall(i, j) => OpenedBetween(i, j)

\* getNextPair has returned false twice in a row, after the children
\* delivered a pair
C30_Witness ==
    /\ Len(log) >= 3
    /\ log[Len(log)].ev = "false" /\ log[Len(log) - 1].ev = "false"
    /\ \E i \in 1..Len(log) : log[i].ev = "pair"
    /\ ipc = "eof"

\* after a false return open() was called again and a child delivered a pair
C30_ReopenedAfterFalse ==
    \E i, j \in 1..Len(log) :
       LaterCall(i, j) /\ log[j].ev = "pair" /\ OpenedBetween(i, j)

(***************************************************************************)
(* Part VII.  Reverse complement of kmer.cpp (C27).  A string is a         *)
(* sequence of characters; a k-mer is a number in 0 .. 4^k - 1.  The       *)
(* function is called on its arguments and then on what it returned.       *)
(***************************************************************************)
\* longest string and longest k-mer of a call
MaxRcLen == 3
MaxRcK == 4

\* kmer.h:18-23
NUM_BASES == 4
BASE_OTHER == 4

\* kmer.h:25
BASE_CHAR == <<"A", "C", "G", "T">>

\* the characters of a string: the four bases, an undefined base, a base in
\* lower case
RcChars == {"A", "C", "G", "T", "N", "a"}

\* charToBase(ch), kmer.h:41-51
CharToBase(ch) ==
    CASE ch \in {"A", "a"} -> 0
      [] ch \in {"C", "c"} -> 1
      [] ch \in {"G", "g"} -> 2
      [] ch \in {"T", "t"} -> 3
      [] OTHER -> BASE_OTHER

\* a complement that is the next base
BaseComplementNext(base) ==
    IF base < NUM_BASES THEN (base + 1) % NUM_BASES ELSE BASE_OTHER

\* baseComplement(base), kmer.h:55-56
BaseComplement(base) == IF base < NUM_BASES THEN 3 - base ELSE BASE_OTHER

RECURSIVE KmerRcLoop(_, _, _, _)
\* kmer.cpp:69-73: the loop of kmerReverseComplement, from i on; k is at
\* most 15, so that revcomp stays below 4^15 and within the 32 bits of a Kmer
KmerRcLoop(i, k, kmer, revcomp) ==
    IF i > k THEN revcomp
    ELSE KmerRcLoop(i + 1, k, kmer \div 4,
                    revcomp * 4 + BaseComplement(kmer % 4))

\* kmerReverseComplement(k, kmer), kmer.cpp:62-76
KmerReverseComplement(k, kmer) ==
    IF k > MAX_KMER_LENGTH
       THEN [threw |-> "unsupported k-mer length", value |-> 0]
       ELSE [threw |-> "", value |-> KmerRcLoop(1, k, kmer, 0)]

\* stringReverseComplement(s), kmer.cpp:100-115
StringReverseComplement(s) ==
    [i \in 1..Len(s) |->
        LET ch   == s[Len(s) - i + 1]
            base == CharToBase(ch)
        IN  IF base < NUM_BASES THEN BASE_CHAR[3 - base + 1] ELSE ch]

RcArgs ==
    {[fn |-> "stringReverseComplement", s |-> s] :
        s \in UNION {StringsOver(RcChars, n) : n \in 0..MaxRcLen}}
       \cup {[fn |-> "kmerReverseComplement", k |-> k, kmer |-> x] :
               k \in 0..MaxRcK, x \in 0..(4^MaxRcK - 1)}
       \cup {[fn |-> "kmerReverseComplement", k |-> MAX_KMER_LENGTH + 1,
              kmer |-> 0]}

RcInit ==
    /\ fpc = "ready"
    /\ args \in {a \in RcArgs :
                    a.fn = "kmerReverseComplement" /\ a.k <= MaxRcK
                       => a.kmer < 4^a.k}
    /\ result = <<>>

\* stringReverseComplement(s)
CallStringReverseComplement ==
    /\ fpc = "ready"
    /\ args.fn = "stringReverseComplement"
    /\ result' = [threw |-> "", value |-> StringReverseComplement(args.s)]
    /\ fpc' = "done"
    /\ UNCHANGED <<args, wvars, mvars, ovars, ivars>>

\* stringReverseComplement of what the first call returned
CallStringReverseComplementAgain ==
    /\ fpc = "done"
    /\ args.fn = "stringReverseComplement"
    /\ result' = [threw |-> "", value |-> StringReverseComplement(result.value)]
    /\ fpc' = "again"
    /\ UNCHANGED <<args, wvars, mvars, ovars, ivars>>

\* kmerReverseComplement(k, kmer)
CallKmerReverseComplement ==
    /\ fpc = "ready"
    /\ args.fn = "kmerReverseComplement"
    /\ result' = KmerReverseComplement(args.k, args.kmer)
    /\ fpc' = "done"
    /\ UNCHANGED <<args, wvars, mvars, ovars, ivars>>

\* kmerReverseComplement of k and what the first call returned
CallKmerReverseComplementAgain ==
    /\ fpc = "done"
    /\ args.fn = "kmerReverseComplement"
    /\ result.threw = ""
    /\ result' = KmerReverseComplement(args.k, result.value)
    /\ fpc' = "again"
    /\ UNCHANGED <<args, wvars, mvars, ovars, ivars>>

RcNext ==
    CallStringReverseComplement \/ CallStringReverseComplementAgain
       \/ CallKmerReverseComplement \/ CallKmerReverseComplementAgain

RcStart == OthersOff /\ RcInit

RcSpec == RcStart /\ [][RcNext]_vars

\* a string of bases: the four bases of the base alphabet and characters
\* that are no base in either case
IsBaseString(s) == \A i \in 1..Len(s) : s[i] \in {"A", "C", "G", "T", "N"}

\* C27: reverse complement is an involution: the reverse complement of the
\* reverse complement of a base string is the string, and that of a k-mer
\* x in 0 .. 4^k - 1, for k at most 15, is x.
C27_ReverseComplementInvolution ==
    fpc = "again" =>
       /\ (args.fn = "stringReverseComplement" /\ IsBaseString(args.s))
             => result.value = args.s
       /\ args.fn = "kmerReverseComplement"
             => result.threw = "" /\ result.value = args.kmer

\* the k-mer ACGG of length 4 has gone through both calls
C27_Witness ==
    /\ fpc = "again"
    /\ args.fn = "kmerReverseComplement" /\ args.k = 4 /\ args.kmer = 26

\* the string ACN has gone through both calls; after the first it was NGT
StringWentThroughBoth ==
    /\ fpc = "again"
    /\ args.fn = "stringReverseComplement" /\ args.s = <<"A", "C", "N">>
    /\ result.value = <<"A", "C", "N">>

\* a base in lower case comes back in upper case
LowerCaseComesBackUpper ==
    (fpc = "again" /\ args.fn = "stringReverseComplement")
       => result.value = [i \in 1..Len(args.s) |->
                             IF args.s[i] = "a" THEN "A" ELSE args.s[i]]

(***************************************************************************)
(* Part VIII.  Minimizer windows: KmerFinder::find of kmer.cpp,            *)
(* MinimizerFinder of minimizer.cpp and getWindows of window.cpp (C24,     *)
(* C25, C26).  A sequence is made of the bases A and C and the undefined   *)
(* base N; the rank table is given on the k-mers of A and C.  A window of  *)
(* the model also keeps the window ID that reportMinimizer was given.      *)
(***************************************************************************)
\* longest sequence, longest k-mer, longest window, largest rank
MaxSeqLen == 5
MaxWinK == 2
MaxWinW == 3
MaxRank == 1

SeqChars == {"A", "C", "N"}

Sequences == UNION {StringsOver(SeqChars, n) : n \in 0..MaxSeqLen}

\* stringToKmer(s), kmer.cpp:37-57, for a string of bases
StringToKmer(s) ==
    LET f[i \in 0..Len(s)] ==
           IF i = 0 THEN 0 ELSE f[i - 1] * 4 + CharToBase(s[i])
    IN  f[Len(s)]

\* the k-mers of the bases A and C
KmersOf(k) == {StringToKmer(s) : s \in StringsOver({"A", "C"}, k)}

\* the rank tables: KmerRankTable::rank of rank.h:38 on these k-mers
RankTables(k) == [KmersOf(k) -> 0..MaxRank]

\* the finder after its constructors, minimizer.cpp:18-25 and
\* window.cpp:18-21; kmer and len are the locals of KmerFinder::find
NewFinder ==
    [kmer |-> 0, len |-> 0, currentWindowID |-> -1, currentMinimizer |-> 0,
     currentStartIndex |-> -1, windowVector |-> <<>>]

\* a window ID taken from the end of the k-mer
MinimizerWindowIDOfNext(startIndex, windowLen) == (startIndex + 1) \div windowLen

\* minimizerWindowID(startIndex, windowLen), minimizer.h:21-22
MinimizerWindowID(startIndex, windowLen) == startIndex \div windowLen

\* Finder::reportMinimizer, window.cpp:25-30
ReportMinimizer(st, minimizer, startIndex, windowID) ==
    [st EXCEPT !.windowVector =
                  Append(@, [minimizer |-> minimizer, offset |-> startIndex,
                             id |-> windowID])]

\* a reportKmer that takes the last of the k-mers of equal hash
ReportKmerTiesLast(st, kmer, startIndex, w, rank) ==
    LET kmerHash == rank[kmer]
        windowID == MinimizerWindowID(startIndex, w)
    IN  IF windowID = st.currentWindowID
           THEN IF kmerHash <= st.currentMinimizer
                   THEN [st EXCEPT !.currentMinimizer = kmerHash,
                                   !.currentStartIndex = startIndex]
                   ELSE st
        ELSE LET st1 == IF st.currentWindowID >= 0
                           THEN ReportMinimizer(st, st.currentMinimizer,
                                                st.currentStartIndex,
                                                st.currentWindowID)
                           ELSE st
             IN  [st1 EXCEPT !.currentWindowID = windowID,
                             !.currentMinimizer = kmerHash,
                             !.currentStartIndex = startIndex]

\* MinimizerFinder::reportKmer, minimizer.cpp:42-74, with the hash of
\* minimizer.h:68; Finder::reportMinimizer returns true, so that the search
\* is never discontinued
ReportKmer(st, kmer, startIndex, w, rank) ==
    LET kmerHash == rank[kmer]
        windowID == MinimizerWindowID(startIndex, w)
    IN  IF windowID = st.currentWindowID
           THEN IF kmerHash < st.currentMinimizer
                   THEN [st EXCEPT !.currentMinimizer = kmerHash,
                                   !.currentStartIndex = startIndex]
                   ELSE st
        ELSE LET st1 == IF st.currentWindowID >= 0
                           THEN ReportMinimizer(st, st.currentMinimizer,
                                                st.currentStartIndex,
                                                st.currentWindowID)
                           ELSE st
             IN  [st1 EXCEPT !.currentWindowID = windowID,
                             !.currentMinimizer = kmerHash,
                             !.currentStartIndex = startIndex]

\* an undefined base that is passed over
UndefinedBaseSkipped(st) == st

\* kmer.cpp:157-162: an undefined base empties the k-mer under construction
UndefinedBase(st) ==
    IF st.len > 0 THEN [st EXCEPT !.kmer = 0, !.len = 0] ELSE st

\* kmer.cpp:144-152: a defined base enters the k-mer under construction;
\* the mask of kmer.cpp:127 keeps the lowest 2k bits
DefinedBase(st, base, k) ==
    IF st.len < k
       THEN [st EXCEPT !.len = @ + 1,
                       !.kmer = @ + base * 4^(k - (st.len + 1))]
       ELSE [st EXCEPT !.kmer = ((@ * 4) % 4^k) + base]

RECURSIVE KmerFinderFind(_, _, _, _, _, _)
\* KmerFinder::find, kmer.cpp:135-164, from position i on
KmerFinderFind(st, i, sequence, k, w, rank) ==
    IF i >= Len(sequence) THEN st
    ELSE LET base == CharToBase(sequence[i + 1])
         IN  IF base < NUM_BASES
                THEN LET st1 == DefinedBase(st, base, k)
                     IN  KmerFinderFind(
                            IF st1.len = k
                               THEN ReportKmer(st1, st1.kmer, i - k + 1, w, rank)
                               ELSE st1,
                            i + 1, sequence, k, w, rank)
                ELSE KmerFinderFind(UndefinedBase(st), i + 1, sequence, k, w,
                                    rank)

\* MinimizerFinder::find, minimizer.cpp:30-36
MinimizerFinderFind(sequence, k, w, rank) ==
    LET st == KmerFinderFind(NewFinder, 0, sequence, k, w, rank)
    IN  IF st.currentWindowID >= 0
           THEN ReportMinimizer(st, st.currentMinimizer, st.currentStartIndex,
                                st.currentWindowID)
           ELSE st

\* getWindows(sequence, w, rankTable, windowVector), window.cpp:39-44
GetWindows(sequence, k, w, rank) ==
    MinimizerFinderFind(sequence, k, w, rank).windowVector

WindowArgs ==
    {[fn |-> "getWindows", sequence |-> s, k |-> kw[1], w |-> kw[2]] :
        s \in Sequences, kw \in (1..MaxWinK) \X (1..MaxWinW)}

WindowInit ==
    /\ fpc = "ready"
    /\ \E a \in WindowArgs, r \in UNION {RankTables(k) : k \in 1..MaxWinK} :
          /\ DOMAIN r = KmersOf(a.k)
          /\ args = [fn |-> a.fn, sequence |-> a.sequence, k |-> a.k,
                     w |-> a.w, rank |-> r]
    /\ result = <<>>

\* getWindows(sequence, w, rankTable, windowVector)
CallGetWindows ==
    /\ fpc = "ready"
    /\ args.fn = "getWindows"
    /\ result' = [threw |-> "",
                  value |-> GetWindows(args.sequence, args.k, args.w, args.rank)]
    /\ fpc' = "done"
    /\ UNCHANGED <<args, wvars, mvars, ovars, ivars>>

WindowStart == OthersOff /\ WindowInit

WindowSpec == WindowStart /\ [][CallGetWindows]_vars

WindowsReturned == fpc = "done" /\ args.fn = "getWindows"

\* the positions of a sequence at which k defined bases start
KmerStarts(sequence, k) ==
    {i \in 0..(Len(sequence) - k) :
        \A j \in 1..k : CharToBase(sequence[i + j]) < NUM_BASES}

\* those of block b of w positions
BlockStarts(sequence, k, w, b) ==
    {i \in KmerStarts(sequence, k) : i >= w * b /\ i < w * (b + 1)}

\* the rank of the k-mer that starts at position i
RankAt(sequence, k, rank, i) ==
    rank[StringToKmer(SubSeq(sequence, i + 1, i + k))]

\* C24: each emitted window carries the least rank of the k-mers that start
\* in its block of w positions, and the offset of the first k-mer of the
\* block that has this rank.
C24_WindowCarriesBlockMinimum ==
    WindowsReturned =>
       \A n \in 1..Len(result.value) :
          LET x      == result.value[n]
              starts == BlockStarts(args.sequence, args.k, args.w, x.id)
          IN  /\ x.offset \in starts
              /\ RankAt(args.sequence, args.k, args.rank, x.offset) = x.minimizer
              /\ \A i \in starts :
                    /\ RankAt(args.sequence, args.k, args.rank, i) >= x.minimizer
                    /\ RankAt(args.sequence, args.k, args.rank, i) = x.minimizer
                          => i >= x.offset

\* a block holds two k-mers of the least rank and one of a larger rank
\* before them
C24_Witness ==
    /\ WindowsReturned
    /\ \E n \in 1..Len(result.value) :
          LET x      == result.value[n]
              starts == BlockStarts(args.sequence, args.k, args.w, x.id)
          IN  /\ \E i \in starts :
                    i > x.offset
                       /\ RankAt(args.sequence, args.k, args.rank, i) = x.minimizer
              /\ \E i \in starts :
                    i < x.offset
                       /\ RankAt(args.sequence, args.k, args.rank, i) > x.minimizer

\* C25: for every sequence and every window length w >= 1 the offset of each
\* emitted window lies in [w * id, w * (id + 1)), and the window IDs grow
\* strictly in the order of emission, so that no ID has two windows.
C25_WindowPartition ==
    WindowsReturned =>
       /\ \A n \in 1..Len(result.value) :
             /\ result.value[n].offset >= args.w * result.value[n].id
             /\ result.value[n].offset < args.w * (result.value[n].id + 1)
       /\ \A m, n \in 1..Len(result.value) :
             m < n => result.value[m].id < result.value[n].id

\* three windows were emitted, with a block without window between two of
\* them
C25_Witness ==
    /\ WindowsReturned
    /\ Len(result.value) = 3
    /\ args.w = 1
    /\ result.value[2].id + 1 < result.value[3].id

(***************************************************************************)
(* Part IX.  The pattern index and the candidates of a read:               *)
(* createPatternMap, getHits and findCandidates of pattern.cpp,            *)
(* getLocations and getCandidates of match.cpp (C22, C23).  A pattern is   *)
(* given by its sequence (Pattern::sequence, without delimiters); every    *)
(* pattern is eligible.  The index is built first; then a read is queried  *)
(* with one of the two units.                                              *)
(***************************************************************************)
\* number of patterns, longest pattern sequence, longest read, longest
\* k-mer and longest window of the index
MaxPatterns == 2
MaxPatSeqLen == 2
MaxQueryLen == 3
MaxIdxK == 1
MaxIdxW == 2

\* the values of minBases (a percentage) and of minMins of a query
QueryMinBases == {50, 100}
QueryMinMins == {1, 2}

PatternSequences == UNION {StringsOver({"A", "C"}, n) : n \in 1..MaxPatSeqLen}

PatternVectors == UNION {[1..n -> PatternSequences] : n \in 1..MaxPatterns}

QuerySequences == UNION {StringsOver(SeqChars, n) : n \in 0..MaxQueryLen}

\* a test that finds no minimizer common
IsCommonNever(minimizer, maxMin) == FALSE

\* pattern.cpp:159, pattern.cpp:248, match.cpp:167: the minimizer is common
IsCommon(minimizer, maxMin) == minimizer > maxMin

\* Location(index, offset), pattern.h:39-49
Location(index, offset) == [index |-> index, offset |-> offset]

\* pattern.cpp:162-172: Location(i, offset) is put under minimizer
PutLocation(patternMap, minimizer, i, offset) ==
    [x \in DOMAIN patternMap \cup {minimizer} |->
        IF x = minimizer
           THEN Append(IF x \in DOMAIN patternMap THEN patternMap[x] ELSE <<>>,
                       Location(i, offset))
           ELSE patternMap[x]]

RECURSIVE PutWindows(_, _, _, _, _)
\* pattern.cpp:156-173: the windows of pattern i from window j on
PutWindows(patternMap, windowVector, i, j, maxMin) ==
    IF j >= Len(windowVector) THEN patternMap
    ELSE PutWindows(
            IF IsCommon(windowVector[j + 1].minimizer, maxMin)
               THEN patternMap
               ELSE PutLocation(patternMap, windowVector[j + 1].minimizer, i,
                                windowVector[j + 1].offset),
            windowVector, i, j + 1, maxMin)

RECURSIVE PutPatterns(_, _, _, _, _, _, _)
\* pattern.cpp:148-176: the patterns from pattern i on
PutPatterns(patternMap, patternVector, i, k, w, rank, maxMin) ==
    IF i >= Len(patternVector) THEN patternMap
    ELSE PutPatterns(
            PutWindows(patternMap, GetWindows(patternVector[i + 1], k, w, rank),
                       i, 0, maxMin),
            patternVector, i + 1, k, w, rank, maxMin)

\* createPatternMap(patternVector, w, rankTable, maxMinimizer),
\* pattern.cpp:139-179
CreatePatternMap(patternVector, k, w, rank, maxMin) ==
    PutPatterns(<<>>, patternVector, 0, k, w, rank, maxMin)

\* LocationCompare, match.cpp:20-27 and pattern.cpp:225-229
LocationCompare(a, b) ==
    IF a.index = b.index THEN a.offset < b.offset ELSE a.index < b.index

RECURSIVE SortLocations(_)
\* std::sort with LocationCompare, match.cpp:191-192 and pattern.cpp:270-271;
\* locations that compare equal are equal, so that the order is determined
SortLocations(lv) ==
    IF Len(lv) <= 1 THEN lv
    ELSE LET least == CHOOSE n \in 1..Len(lv) :
                         \A m \in 1..Len(lv) : ~LocationCompare(lv[m], lv[n])
         IN  <<lv[least]>>
                \o SortLocations([n \in 1..(Len(lv) - 1) |->
                                     IF n < least THEN lv[n] ELSE lv[n + 1]])

\* match.cpp:177-188, pattern.cpp:258-265: the locations found under the
\* minimizer of a window of the read
LocationsOfWindow(location, windowOffset) ==
    [j \in 1..Len(location) |->
        Location(location[j].index,
                 Max(0, location[j].offset - windowOffset))]

RECURSIVE LookUpWindows(_, _, _, _, _)
\* match.cpp:164-189, pattern.cpp:245-266: the windows of the read from
\* window i on; st = [locationVector, lookups], lookups the minimizers that
\* PatternMap::find was called with
LookUpWindows(st, windowVector, patternMap, i, maxMin) ==
    IF i >= Len(windowVector) THEN st
    ELSE LET minimizer == windowVector[i + 1].minimizer
         IN  LookUpWindows(
                IF IsCommon(minimizer, maxMin) THEN st
                ELSE IF minimizer \notin DOMAIN patternMap
                        THEN [st EXCEPT !.lookups = @ \cup {minimizer}]
                ELSE [locationVector |->
                         st.locationVector
                            \o LocationsOfWindow(patternMap[minimizer],
                                                 windowVector[i + 1].offset),
                      lookups |-> st.lookups \cup {minimizer}],
                windowVector, patternMap, i + 1, maxMin)

\* getLocations of match.cpp:151-193 and getHits of pattern.cpp:236-272
GetLocations(sequence, patternMap, k, w, rank, maxMin) ==
    LET st == LookUpWindows([locationVector |-> <<>>, lookups |-> {}],
                            GetWindows(sequence, k, w, rank), patternMap, 0,
                            maxMin)
    IN  [st EXCEPT !.locationVector = SortLocations(@)]

\* match.cpp:222-225, pattern.cpp:299-301: the index after the locations
\* equal to locationVector[i + 1]
NextLocation(locationVector, i) ==
    CHOOSE n \in (i + 1)..Len(locationVector) :
       /\ \A m \in (i + 1)..n : locationVector[m] = locationVector[i + 1]
       /\ n < Len(locationVector) => locationVector[n + 1] # locationVector[i + 1]

RECURSIVE CandidateLoop(_, _, _, _, _, _, _)
\* match.cpp:216-253 and pattern.cpp:294-317, from location i on; unit names
\* the file, whose lengthOfLCS is called; the candidates are kept in the
\* order in which they are found
CandidateLoop(unit, i, locationVector, sequence, patternVector, minMin, minMatches) ==
    IF i >= Len(locationVector) THEN <<>>
    ELSE LET location  == locationVector[i + 1]
             next      == NextLocation(locationVector, i)
             psequence == patternVector[location.index + 1]
             seqlen    == Len(sequence)
             pcmplen   == Min(seqlen, Len(psequence) - location.offset)
             matchingBases ==
                IF unit = "match.cpp"
                   THEN LengthOfLCS(sequence, 0, seqlen, psequence,
                                    location.offset, pcmplen)
                   ELSE PatternLengthOfLCS(sequence, 0, seqlen, psequence,
                                           location.offset, pcmplen)
             rest == CandidateLoop(unit, next, locationVector, sequence,
                                   patternVector, minMin, minMatches)
         IN  IF next - i < minMin THEN rest
             ELSE IF matchingBases < minMatches THEN rest
             ELSE <<[index |-> location.index, offset |-> location.offset,
                     length |-> seqlen, matchingBases |-> matchingBases]>>
                     \o rest

\* getCandidates of match.cpp:200-254; the candidates of cmap pattern by
\* pattern
GetCandidates(sequence, patternVector, patternMap, k, w, rank, maxMin, minB, minMin) ==
    LET found == GetLocations(sequence, patternMap, k, w, rank, maxMin)
    IN  [lookups |-> found.lookups,
         candidates |->
            CandidateLoop("match.cpp", 0, found.locationVector, sequence,
                          patternVector, minMin,
                          ComputeMinMatches(Len(sequence), minB))]

\* findCandidates of pattern.cpp:280-320, called with the minMatches of
\* fuzzion2.cpp:193-195
FindCandidates(sequence, patternVector, patternMap, k, w, rank, maxMin, minB, minMin) ==
    LET found == GetLocations(sequence, patternMap, k, w, rank, maxMin)
    IN  [lookups |-> found.lookups,
         candidates |->
            CandidateLoop("pattern.cpp", 0, found.locationVector, sequence,
                          patternVector, minMin,
                          ComputeMinMatches(Len(sequence), minB))]

IndexInit ==
    /\ fpc = "ready"
    /\ \E pv \in PatternVectors, k \in 1..MaxIdxK, w \in 1..MaxIdxW,
          maxMin \in 0..MaxRank :
          \E r \in RankTables(k) :
             args = [fn |-> "createPatternMap", patternVector |-> pv, k |-> k,
                     w |-> w, rank |-> r, maxMinimizer |-> maxMin]
    /\ result = <<>>

\* createPatternMap(patternVector, w, rankTable, maxMinimizer)
CallCreatePatternMap ==
    /\ fpc = "ready"
    /\ args.fn = "createPatternMap"
    /\ result' = [threw |-> "",
                  patternMap |-> CreatePatternMap(args.patternVector, args.k,
                                                  args.w, args.rank,
                                                  args.maxMinimizer)]
    /\ fpc' = "indexed"
    /\ UNCHANGED <<args, wvars, mvars, ovars, ivars>>

\* the arguments of a query of the index
QueryArgs(fn, unit, sequence, minB, minMin) ==
    [fn |-> fn, unit |-> unit, patternVector |-> args.patternVector,
     k |-> args.k, w |-> args.w, rank |-> args.rank,
     maxMinimizer |-> args.maxMinimizer, sequence |-> sequence,
     minBases |-> minB, minMins |-> minMin]

\* what a query returns: the index, the windows of the read, the minimizers
\* looked up, the candidates
QueryResult(sequence, found) ==
    [threw |-> "", patternMap |-> result.patternMap,
     windowVector |-> GetWindows(sequence, args.k, args.w, args.rank),
     lookups |-> found.lookups, candidates |-> found.candidates]

\* getCandidates(sequence, patternVector, patternMap, w, rankTable,
\* maxMinimizer, minBases, minMins, cmap)
CallGetCandidates ==
    /\ fpc = "indexed"
    /\ \E sequence \in QuerySequences, minB \in QueryMinBases,
          minMin \in QueryMinMins :
          /\ args' = QueryArgs("getCandidates", "match.cpp", sequence, minB,
                               minMin)
          /\ result' = QueryResult(sequence,
                          GetCandidates(sequence, args.patternVector,
                                        result.patternMap, args.k, args.w,
                                        args.rank, args.maxMinimizer, minB,
                                        minMin))
    /\ fpc' = "done"
    /\ UNCHANGED <<wvars, mvars, ovars, ivars>>

\* findCandidates(sequence, patternMap, patternVector, w, rankTable,
\* maxMinimizer, minMinimizers, minMatches)
CallFindCandidates ==
    /\ fpc = "indexed"
    /\ \E sequence \in QuerySequences, minB \in QueryMinBases,
          minMin \in QueryMinMins :
          /\ args' = QueryArgs("findCandidates", "pattern.cpp", sequence, minB,
                               minMin)
          /\ result' = QueryResult(sequence,
                          FindCandidates(sequence, args.patternVector,
                                         result.patternMap, args.k, args.w,
                                         args.rank, args.maxMinimizer, minB,
                                         minMin))
    /\ fpc' = "done"
    /\ UNCHANGED <<wvars, mvars, ovars, ivars>>

IndexNext == CallCreatePatternMap \/ CallGetCandidates \/ CallFindCandidates

IndexStart == OthersOff /\ IndexInit

IndexSpec == IndexStart /\ [][IndexNext]_vars

Indexed ==
    fpc \in {"indexed", "done"}
       /\ args.fn \in {"createPatternMap", "getCandidates", "findCandidates"}

Queried == fpc = "done" /\ args.fn \in {"getCandidates", "findCandidates"}

\* every entry of the index is stored under the rank of a k-mer that starts
\* at the entry's offset of its pattern's sequence
EntriesAtKmers ==
    \A minimizer \in DOMAIN result.patternMap :
       \A n \in 1..Len(result.patternMap[minimizer]) :
          LET entry == result.patternMap[minimizer][n]
          IN  /\ entry.index \in 0..(Len(args.patternVector) - 1)
              /\ entry.offset
                    \in KmerStarts(args.patternVector[entry.index + 1], args.k)
              /\ RankAt(args.patternVector[entry.index + 1], args.k,
                        args.rank, entry.offset) = minimizer

C22_StoredAtCutoff ==
    Indexed /\ args.maxMinimizer \in DOMAIN result.patternMap

\* the minimizer hits of the queried read that imply pattern index and
\* offset: a window of the read and an entry of the index under the
\* window's minimizer
HitsImplying(index, offset) ==
    {<<n, j>> \in (1..Len(result.windowVector)) \X (1..(MaxPatterns * MaxPatSeqLen)) :
        LET minimizer == result.windowVector[n].minimizer
        IN  /\ minimizer \in DOMAIN result.patternMap
            /\ j <= Len(result.patternMap[minimizer])
            /\ result.patternMap[minimizer][j].index = index
            /\ Max(0, result.patternMap[minimizer][j].offset
                         - result.windowVector[n].offset) = offset}

\* the least number of matching bases of a read of length L: the ceiling
\* of minBases / 100 * L
LeastMatches(L) ==
    CHOOSE m \in 0..L :
       /\ 100 * m >= args.minBases * L
       /\ 100 * (m - 1) < args.minBases * L

\* candidate c of the queried read is supported by at least minMins hits,
\* lies inside its pattern and has enough matching bases
CandidateSupported(c) ==
    LET psequence == args.patternVector[c.index + 1]
        L         == Len(args.sequence)
    IN  /\ Cardinality(HitsImplying(c.index, c.offset)) >= args.minMins
        /\ c.offset >= 0 /\ c.offset < Len(psequence)
        /\ c.matchingBases >= LeastMatches(L)

\* the matching bases of candidate c are the longest common subsequence of
\* the whole read and the pattern substring of length
\* min(L, patternLen - alignOffset) at alignOffset
CandidateBasesAreLcs(c) ==
    LET psequence == args.patternVector[c.index + 1]
        L         == Len(args.sequence)
    IN  c.matchingBases
           = Lcs(args.sequence,
                 SubSeq(psequence, c.offset + 1,
                        c.offset + Min(L, Len(psequence) - c.offset)))

\* no two candidates of the queried read have the same pattern index and
\* offset
OneCandidatePerLocation ==
    \A m, n \in 1..Len(result.candidates) :
       (/\ result.candidates[m].index = result.candidates[n].index
        /\ result.candidates[m].offset = result.candidates[n].offset) => m = n

\* C23: every candidate of a read of length L is supported by at least
\* minMins minimizer hits that imply the same (patternIndex, alignOffset),
\* alignOffset lies inside the pattern sequence, matchingBases is the LCS of
\* the whole read and the pattern substring at alignOffset and is at least
\* ceil(minBases / 100 * L), and each (patternIndex, alignOffset) yields at
\* most one candidate.
C23_CandidatesSupported ==
    Queried =>
       /\ \A n \in 1..Len(result.candidates) :
             /\ CandidateSupported(result.candidates[n])
             /\ CandidateBasesAreLcs(result.candidates[n])
       /\ OneCandidatePerLocation

\* findCandidates returned a candidate for the read AA on the pattern AA
\* with one matching base
C23_FindCandidatesOneBaseShort ==
    /\ Queried /\ args.unit = "pattern.cpp"
    /\ args.sequence = <<"A", "A">>
    /\ args.patternVector = <<<<"A", "A">>>>
    /\ Len(result.candidates) = 1
    /\ result.candidates[1].matchingBases = 1

\* the candidates of getCandidates of match.cpp are as C23 states
GetCandidatesSupported ==
    (Queried /\ args.unit = "match.cpp") =>
       /\ \A n \in 1..Len(result.candidates) :
             /\ CandidateSupported(result.candidates[n])
             /\ CandidateBasesAreLcs(result.candidates[n])
       /\ OneCandidatePerLocation

\* the candidates of findCandidates of pattern.cpp are as C23 states but for
\* the matching bases, which are those of the read without its last base
FindCandidatesBasesDropLast ==
    (Queried /\ args.unit = "pattern.cpp") =>
       /\ \A n \in 1..Len(result.candidates) :
             LET c         == result.candidates[n]
                 psequence == args.patternVector[c.index + 1]
                 L         == Len(args.sequence)
             IN  /\ CandidateSupported(c)
                 /\ c.matchingBases
                       = Lcs(SubSeq(args.sequence, 1, L - 1),
                             SubSeq(psequence, c.offset + 1,
                                    c.offset + Min(L, Len(psequence) - c.offset)))
       /\ OneCandidatePerLocation

\* getCandidates returned a candidate that two hits support, for a read
\* that is not the pattern's sequence
CandidateOfTwoHits ==
    /\ Queried /\ args.unit = "match.cpp"
    /\ args.minMins = 2
    /\ Len(result.candidates) >= 1
    /\ args.sequence # args.patternVector[result.candidates[1].index + 1]

(***************************************************************************)
(* The windows of a read and its candidates (C26): getWindows is called on *)
(* a sequence, and the sequence is then queried against the index of one   *)
(* pattern of two bases in which no minimizer is common.                   *)
(***************************************************************************)
\* getCandidates, or findCandidates when unit is pattern.cpp, for the
\* sequence whose windows were returned, with minBases 50 and minMins 1
QueryWindowed(unit) ==
    /\ fpc = "done"
    /\ args.fn = "getWindows"
    /\ \E psequence \in StringsOver({"A", "C"}, 2) :
          LET patternVector == <<psequence>>
              patternMap == CreatePatternMap(patternVector, args.k, args.w,
                                             args.rank, MaxRank)
              found ==
                 IF unit = "match.cpp"
                    THEN GetCandidates(args.sequence, patternVector, patternMap,
                                       args.k, args.w, args.rank, MaxRank, 50, 1)
                    ELSE FindCandidates(args.sequence, patternVector, patternMap,
                                        args.k, args.w, args.rank, MaxRank, 50, 1)
          IN  result' = [threw |-> "", value |-> result.value,
                         psequence |-> psequence, unit |-> unit,
                         candidates |-> found.candidates]
    /\ fpc' = "queried"
    /\ UNCHANGED <<args, wvars, mvars, ovars, ivars>>

\* getCandidates of match.cpp on the sequence
CallGetCandidatesOfWindowed == QueryWindowed("match.cpp")

\* findCandidates of pattern.cpp on the sequence
CallFindCandidatesOfWindowed == QueryWindowed("pattern.cpp")

ReadNext ==
    CallGetWindows \/ CallGetCandidatesOfWindowed
       \/ CallFindCandidatesOfWindowed

ReadSpec == WindowStart /\ [][ReadNext]_vars

\* the windows of the sequence are known
WindowsKnown == fpc \in {"done", "queried"} /\ args.fn = "getWindows"

\* the blocks of w positions in which k defined bases start
BlocksWithKmer ==
    {b \in 0..Len(args.sequence) :
        BlockStarts(args.sequence, args.k, args.w, b) # {}}

\* C26: a window is emitted for block b exactly when k defined bases start
\* at some position of the block, an undefined base ending the run of
\* bases; so a sequence shorter than k, or made of undefined bases only,
\* yields no windows and no candidates.
C26_WindowIffKmerInBlock ==
    WindowsKnown =>
       /\ {result.value[n].id : n \in 1..Len(result.value)} = BlocksWithKmer
       /\ (\/ Len(args.sequence) < args.k
           \/ \A i \in 1..Len(args.sequence) :
                 CharToBase(args.sequence[i]) = BASE_OTHER)
             => result.value = <<>>
       /\ (fpc = "queried" /\ result.value = <<>>) => result.candidates = <<>>

\* a sequence with an undefined base between two bases has a window for
\* the block of each base and none for the block between, and a candidate
C26_Witness ==
    /\ fpc = "queried"
    /\ args.fn = "getWindows" /\ args.k = 1 /\ args.w = 1
    /\ args.sequence = <<"A", "N", "A">>
    /\ Len(result.value) = 2
    /\ result.value[1].id = 0 /\ result.value[2].id = 2
    /\ result.candidates # <<>>

\* a sequence of defined bases in which an undefined base leaves no 2-mer
\* has no windows and no candidates
NoWindowsNoCandidates ==
    /\ fpc = "queried"
    /\ args.fn = "getWindows" /\ args.k = 2
    /\ args.sequence = <<"A", "N", "A">>
    /\ result.value = <<>> /\ result.candidates = <<>>

====
